---- MODULE Spec2Model ----
(***************************************************************************)
(* Model of the census-overlay pipeline of axon-fusus-analysis-tools:      *)
(*   census_overlays/join_script.py      join_census_data                  *)
(*   census_overlays/create_map_data.py  analyze_camera_distribution (CSV) *)
(*   census_overlays/censuscam.py        analyze_camera_distribution       *)
(*                                       (GeoJSON)                         *)
(*   census_overlays/anal.py             perform_statistical_analysis      *)
(*   census_overlays/visualizations.py   perform_statistical_analysis      *)
(* A pandas DataFrame is a sequence of records (its rows, in order).  A    *)
(* cell that pandas holds as NaN is the empty tuple <<>>, a present cell   *)
(* is the one-element tuple <<v>>.  Text that the code parses (GEO_ID,     *)
(* the income column) is a sequence of one-character strings.              *)
(***************************************************************************)
EXTENDS Integers, Sequences, FiniteSets, TLC

VARIABLES
    script,        \* "flat": create_map_data.py, "structured": censuscam.py, "join": join_script.py
    pc,            \* position inside the running function
    censusFile,    \* rows of the joined census CSV (census_data_path)
    cameraFile,    \* the camera CSV (flat) or the camera GeoJSON (structured)
    tractsFile,    \* features of the tract shapefile, in file order
    income_df,
    camera_gdf,
    tracts_gdf,
    joined_gdf,
    camera_counts_per_tract,
    final_gdf,
    outputFile,    \* the GeoJSON / CSV written by the run, NoFile before
    printed,       \* what the run printed, in order
    dp03File,      \* join_script.py: the DP03 CSV
    dp05File,      \* join_script.py: the DP05 CSV
    df_dp03,
    df_dp05,
    merged_df,
    geojsonFile,   \* perform_statistical_analysis: the enriched GeoJSON (geojson_path)
    gdf,
    extra_vars_df,
    analysis_gdf,
    analysis_gdf_clean,
    income_data,
    poverty_data,
    bracket_analysis,
    urls,          \* connect-counter: the URLs of the run, in list order
    logFile,       \* connect-counter: LOG_FILE, NoFile while absent, else its rows
    browser,       \* get_camera_stats: "none", "open" or "closed"
    waited,        \* milliseconds the wait in progress has lasted
    index,         \* position of the main loop in its list
    stats,         \* the pair get_camera_stats returned
    clock,         \* datetime.datetime.now()
    runs,          \* invocations of the script so far
    results_data,  \* ScraperApp.results_data
    start_button,  \* state of ScraperApp.start_button
    save_button,   \* state of ScraperApp.save_button
    threads,       \* the worker threads start_scraping_thread started
    after_queue,   \* callbacks handed to root.after, not yet run
    dialog,        \* the modal dialogs the main thread is showing, the innermost last
    df_locations   \* geocode_earth.py: df, the data frame of main

vars == << script, pc, censusFile, cameraFile, tractsFile, income_df, camera_gdf,
           tracts_gdf, joined_gdf, camera_counts_per_tract, final_gdf, outputFile,
           printed, dp03File, dp05File, df_dp03, df_dp05, merged_df, geojsonFile,
           gdf, extra_vars_df, analysis_gdf, analysis_gdf_clean, income_data,
           poverty_data, bracket_analysis, urls, logFile, browser, waited, index,
           stats, clock, runs, results_data, start_button, save_button, threads,
           after_queue, dialog, df_locations >>

mapVars == << income_df, camera_gdf, tracts_gdf, joined_gdf,
              camera_counts_per_tract, final_gdf >>

joinVars == << df_dp03, df_dp05, merged_df >>

metricVars == << gdf, extra_vars_df, analysis_gdf, analysis_gdf_clean, income_data,
                poverty_data, bracket_analysis >>

files == << script, censusFile, cameraFile, tractsFile, dp03File, dp05File, geojsonFile >>

scrapeVars == << urls, logFile, browser, waited, index, stats, clock, runs >>

guiVars == << results_data, start_button, save_button, threads, after_queue, dialog >>

acquisitionVars == << scrapeVars, guiVars, df_locations >>

----------------------------------------------------------------------------
(* Bounds of the model *)

MaxCensusRows == 2

MaxCameraRows == 2

MaxTableRows == 2

MaxFeatures == 5

----------------------------------------------------------------------------
(* Values *)

NaN == <<>>

NoFile == [written |-> FALSE]

NoFrame == <<>>

\* the scrapers and the geocoder are not part of the run
NoAcquisition ==
    /\ urls = << >>
    /\ logFile = NoFile
    /\ browser = "none"
    /\ waited = 0
    /\ index = 0
    /\ stats = << >>
    /\ clock = 0
    /\ runs = 0
    /\ results_data = << >>
    /\ start_button = "disabled"
    /\ save_button = "disabled"
    /\ threads = << >>
    /\ after_queue = << >>
    /\ dialog = << >>
    /\ df_locations = NoFrame

RECURSIVE SeqSum(_)
SeqSum(s) == IF s = <<>> THEN 0 ELSE Head(s) + SeqSum(Tail(s))

Range(s) == { s[i] : i \in 1..Len(s) }

SeqsUpTo(S, n) == UNION { [1..k -> S] : k \in 0..n }

RECURSIVE Flatten(_)
Flatten(ss) == IF ss = <<>> THEN <<>> ELSE Head(ss) \o Flatten(Tail(ss))

----------------------------------------------------------------------------
(* str.split('US')[-1] *)

Marker == <<"U", "S">>

\* the start of the last occurrence of Marker in s at or before position i, 0 if none
RECURSIVE LastMarkerBefore(_, _)
LastMarkerBefore(s, i) ==
    IF i < 1 THEN 0
    ELSE IF SubSeq(s, i, i + 1) = Marker THEN i
    ELSE LastMarkerBefore(s, i - 1)

\* mutant: the text after the first occurrence of the marker
SplitFirst(s) ==
    LET hits == { i \in 1..(Len(s) - 1) : SubSeq(s, i, i + 1) = Marker }
    IN  IF hits = {} THEN s
        ELSE SubSeq(s, (CHOOSE i \in hits : \A j \in hits : i <= j) + 2, Len(s))

SplitLast(s) ==
    LET i == LastMarkerBefore(s, Len(s) - 1)
    IN  IF i = 0 THEN s ELSE SubSeq(s, i + 2, Len(s))

----------------------------------------------------------------------------
(* pd.to_numeric(..., errors='coerce') on a text cell *)

Digits == <<"0", "1", "2", "3", "4", "5", "6", "7", "8", "9">>

IsDigit(c) == \E d \in 1..10 : Digits[d] = c

DigitVal(c) == (CHOOSE d \in 1..10 : Digits[d] = c) - 1

RECURSIVE ParseDigits(_, _)
ParseDigits(s, acc) ==
    IF s = <<>> THEN acc ELSE ParseDigits(Tail(s), 10 * acc + DigitVal(Head(s)))

\* mutant: a cell that does not parse becomes 0 at once, not NaN
to_numeric_or_zero(cell) ==
    IF cell = NaN THEN NaN
    ELSE IF cell[1] # <<>> /\ \A i \in 1..Len(cell[1]) : IsDigit(cell[1][i])
         THEN << ParseDigits(cell[1], 0) >>
         ELSE << 0 >>

to_numeric(cell) ==
    IF cell = NaN THEN NaN
    ELSE IF cell[1] # <<>> /\ \A i \in 1..Len(cell[1]) : IsDigit(cell[1][i])
         THEN << ParseDigits(cell[1], 0) >>
         ELSE NaN

fillna0(cell) == IF cell = NaN THEN <<0>> ELSE cell

----------------------------------------------------------------------------
(* Ordering used by groupby(...), which returns its groups sorted by key *)

Alphabet == Digits \o <<"A", "B", "C", "D", "S", "U">>

CharRank(c) == CHOOSE k \in 1..Len(Alphabet) : Alphabet[k] = c

RECURSIVE LexLess(_, _)
LexLess(a, b) ==
    IF b = <<>> THEN FALSE
    ELSE IF a = <<>> THEN TRUE
    ELSE IF Head(a) = Head(b) THEN LexLess(Tail(a), Tail(b))
    ELSE CharRank(Head(a)) < CharRank(Head(b))

PairLess(a, b) == a[1] < b[1] \/ (a[1] = b[1] /\ a[2] < b[2])

\* the coordinate pairs of S as a sequence, ascending
SortedPairs(S) ==
    [ i \in 1..Cardinality(S) |->
        CHOOSE x \in S : Cardinality({ y \in S : PairLess(y, x) }) = i - 1 ]

\* the identifiers of S as a sequence, ascending
SortedIds(S) ==
    [ i \in 1..Cardinality(S) |->
        CHOOSE x \in S : Cardinality({ y \in S : LexLess(y, x) }) = i - 1 ]

----------------------------------------------------------------------------
(* analyze_camera_distribution, section 1: load and prepare census data *)

\* census_df['GEO_ID'].apply(lambda x: x.split('US')[-1]) raises on a NaN cell
CensusLoadable(file) == \A i \in 1..Len(file) : file[i].GEO_ID # NaN

prepare_income_df(file) ==
    [ i \in 1..Len(file) |->
        [ GEOID                 |-> SplitLast(file[i].GEO_ID[1]),
          TractName             |-> fillna0(file[i].NAME),
          MedianHouseholdIncome |-> fillna0(to_numeric(file[i].DP03_0062E)) ] ]

\* except Exception as e: print(f"An unexpected error occurred: {e}")
HandleException(e) ==
    /\ pc' = "failed"
    /\ printed' = Append(printed, [msg |-> "An unexpected error occurred", error |-> e])

PrepareCensus ==
    /\ script \in {"flat", "structured"}
    /\ pc = "census"
    /\ IF CensusLoadable(censusFile)
       THEN /\ income_df' = prepare_income_df(censusFile)
            /\ printed' = Append(printed, [msg |-> "Census data prepared."])
            /\ pc' = "cameras"
       ELSE /\ HandleException("'float' object has no attribute 'split'")
            /\ UNCHANGED income_df
    /\ UNCHANGED << files, acquisitionVars, camera_gdf, tracts_gdf, joined_gdf,
                    camera_counts_per_tract, final_gdf, outputFile, joinVars, metricVars >>

----------------------------------------------------------------------------
(* section 2 of create_map_data.py: the flat camera CSV *)

lat_col == "Latitude"

lon_col == "Longitude"

\* groupby([lat_col, lon_col]) keeps only the rows whose two keys are present
GroupKeys(rows) ==
    { << rows[i].Latitude[1], rows[i].Longitude[1] >> :
        i \in { j \in 1..Len(rows) : rows[j].Latitude # NaN /\ rows[j].Longitude # NaN } }

\* mutant: every location counts once, however many rows carry it
GroupSizeOne(rows, key) == 1

GroupSize(rows, key) ==
    Cardinality({ i \in 1..Len(rows) :
                    /\ rows[i].Latitude = << key[1] >>
                    /\ rows[i].Longitude = << key[2] >> })

\* mutant: no grouping, one output row per raw row with both keys
camera_counts_ungrouped(rows) ==
    LET kept == SelectSeq(rows, LAMBDA r : r.Latitude # NaN /\ r.Longitude # NaN)
    IN  [ i \in 1..Len(kept) |->
            [ Latitude |-> kept[i].Latitude[1], Longitude |-> kept[i].Longitude[1],
              num_cameras |-> 1 ] ]

\* .groupby([lat_col, lon_col]).size().reset_index(name='num_cameras')
camera_counts_by_loc(rows) ==
    LET keys == SortedPairs(GroupKeys(rows))
    IN  [ i \in 1..Len(keys) |->
            [ Latitude    |-> keys[i][1],
              Longitude   |-> keys[i][2],
              num_cameras |-> GroupSize(rows, keys[i]) ] ]

\* gpd.points_from_xy(df[lon_col], df[lat_col])
flat_camera_gdf(counts) ==
    [ i \in 1..Len(counts) |->
        [ Latitude    |-> counts[i].Latitude,
          Longitude   |-> counts[i].Longitude,
          num_cameras |-> counts[i].num_cameras,
          geometry    |-> << counts[i].Longitude, counts[i].Latitude >> ] ]

\* mutant: the KeyError is raised only when both columns are missing
MissingBothColumns(columns) == lat_col \notin columns /\ lon_col \notin columns

\* if lat_col not in df.columns or lon_col not in df.columns: raise KeyError(...)
MissingColumns(columns) == lat_col \notin columns \/ lon_col \notin columns

PrepareCamerasCsv ==
    /\ script = "flat"
    /\ pc = "cameras"
    /\ IF MissingColumns(cameraFile.columns)
       THEN /\ HandleException("The required columns 'Latitude' and 'Longitude' were not found")
            /\ UNCHANGED camera_gdf
       ELSE LET counts == camera_counts_by_loc(cameraFile.rows)
            IN  /\ camera_gdf' = flat_camera_gdf(counts)
                /\ printed' = printed \o
                       << [msg |-> "Found a total of cameras at unique locations",
                           total |-> Len(cameraFile.rows), locations |-> Len(counts)],
                          [msg |-> "Camera data prepared."] >>
                /\ pc' = "tracts"
    /\ UNCHANGED << files, acquisitionVars, income_df, tracts_gdf, joined_gdf,
                    camera_counts_per_tract, final_gdf, outputFile, joinVars, metricVars >>

----------------------------------------------------------------------------
(* section 2 of censuscam.py: the structured camera GeoJSON *)

\* dict.get(key, default) on a dict modelled as a function
Get(dict, key, default) == IF key \in DOMAIN dict THEN dict[key] ELSE default

Truthy(dict) == DOMAIN dict # {}

\* mutant: an empty 'cameras' list counts as one instance
num_cameras_empty_is_one(feature) ==
    LET properties == Get(feature, "properties", <<>>)
        log_stats  == Get(properties, "log_stats", <<>>)
        cameras    == Get(log_stats, "cameras", <<>>)
    IN  IF cameras # <<>> THEN Len(cameras) ELSE 1

num_cameras_of(feature) ==
    LET properties == Get(feature, "properties", <<>>)
        log_stats  == Get(properties, "log_stats", <<>>)
    IN  IF Truthy(log_stats) /\ "cameras" \in DOMAIN log_stats
        THEN Len(Get(log_stats, "cameras", <<>>))
        ELSE 1

locations(features) ==
    [ i \in 1..Len(features) |->
        [ num_cameras |-> num_cameras_of(features[i]),
          longitude   |-> features[i].geometry.coordinates[1],
          latitude    |-> features[i].geometry.coordinates[2] ] ]

structured_camera_gdf(locs) ==
    [ i \in 1..Len(locs) |->
        [ num_cameras |-> locs[i].num_cameras,
          longitude   |-> locs[i].longitude,
          latitude    |-> locs[i].latitude,
          geometry    |-> << locs[i].longitude, locs[i].latitude >> ] ]

PrepareCamerasGeoJson ==
    /\ script = "structured"
    /\ pc = "cameras"
    /\ LET locs == locations(cameraFile.features)
       IN  IF locs = <<>>
           \* pd.DataFrame([]) has no column 'longitude': AttributeError
           THEN /\ HandleException("'DataFrame' object has no attribute 'longitude'")
                /\ UNCHANGED camera_gdf
           ELSE /\ camera_gdf' = structured_camera_gdf(locs)
                /\ printed' = Append(printed, [msg |-> "Camera data prepared."])
                /\ pc' = "tracts"
    /\ UNCHANGED << files, acquisitionVars, income_df, tracts_gdf, joined_gdf,
                    camera_counts_per_tract, final_gdf, outputFile, joinVars, metricVars >>

----------------------------------------------------------------------------
(* section 3: the tract shapefile.  A tract's geometry is the set of      *)
(* coordinate pairs <<lon, lat>> that lie strictly within it, already in  *)
(* the cameras' reference system (to_crs).                                 *)

LoadTracts ==
    /\ script \in {"flat", "structured"}
    /\ pc = "tracts"
    /\ tracts_gdf' = tractsFile
    /\ printed' = Append(printed, [msg |-> "Census tracts loaded."])
    /\ pc' = "sjoin"
    /\ UNCHANGED << files, acquisitionVars, income_df, camera_gdf, joined_gdf,
                    camera_counts_per_tract, final_gdf, outputFile, joinVars, metricVars >>

----------------------------------------------------------------------------
(* section 4: gpd.sjoin(camera_gdf, tracts_gdf, how="inner", predicate='within') *)

\* mutant: predicate 'intersects' on bounding boxes, which every point satisfies
within_anything(point, polygon) == TRUE

within(point, polygon) == point \in polygon.geometry

\* one row per pair (camera row, tract) whose point lies within the tract
sjoin(cams, tracts) ==
    Flatten([ i \in 1..Len(cams) |->
        SelectSeq([ j \in 1..Len(tracts) |->
                      [ index       |-> i,
                        num_cameras |-> cams[i].num_cameras,
                        index_right |-> j,
                        GEOID       |-> tracts[j].GEOID ] ],
                  LAMBDA row : within(cams[i].geometry, tracts[row.index_right])) ])

SpatialJoin ==
    /\ script \in {"flat", "structured"}
    /\ pc = "sjoin"
    /\ joined_gdf' = sjoin(camera_gdf, tracts_gdf)
    /\ pc' = "aggregate"
    /\ UNCHANGED << files, acquisitionVars, income_df, camera_gdf, tracts_gdf,
                    camera_counts_per_tract, final_gdf, outputFile, printed, joinVars, metricVars >>

----------------------------------------------------------------------------
(* section 5: joined_gdf.groupby('GEOID')['num_cameras'].sum().reset_index() *)

\* mutant: the number of joined rows of the tract, not the sum of their counts
GroupRows(joined, geoid) == Len(SelectSeq(joined, LAMBDA r : r.GEOID = geoid))

GroupSum(joined, geoid) ==
    LET rows == SelectSeq(joined, LAMBDA r : r.GEOID = geoid)
    IN  SeqSum([ i \in 1..Len(rows) |-> rows[i].num_cameras ])

camera_counts(joined) ==
    LET keys == SortedIds({ joined[i].GEOID : i \in 1..Len(joined) })
    IN  [ i \in 1..Len(keys) |->
            [ GEOID |-> keys[i], TotalCameras |-> << GroupSum(joined, keys[i]) >> ] ]

AggregatePerTract ==
    /\ script \in {"flat", "structured"}
    /\ pc = "aggregate"
    /\ camera_counts_per_tract' = camera_counts(joined_gdf)
    /\ printed' = IF script = "flat"
                  THEN Append(printed,
                         [msg |-> "Total cameras mapped to tracts",
                          total |-> SeqSum([ i \in 1..Len(camera_counts_per_tract') |->
                                               camera_counts_per_tract'[i].TotalCameras[1] ])])
                  ELSE printed
    /\ pc' = "merge"
    /\ UNCHANGED << files, acquisitionVars, income_df, camera_gdf, tracts_gdf, joined_gdf,
                    final_gdf, outputFile, joinVars, metricVars >>

----------------------------------------------------------------------------
(* section 6: the two left merges onto the tracts, then the zero fill *)

\* tracts_gdf.merge(income_df, on='GEOID', how='left')
merge_income(tracts, income) ==
    Flatten([ t \in 1..Len(tracts) |->
        LET hits == SelectSeq(income, LAMBDA r : r.GEOID = tracts[t].GEOID)
        IN  IF hits = <<>>
            THEN << [ GEOID |-> tracts[t].GEOID, geometry |-> tracts[t].geometry,
                      TractName |-> NaN, MedianHouseholdIncome |-> NaN ] >>
            ELSE [ k \in 1..Len(hits) |->
                     [ GEOID |-> tracts[t].GEOID, geometry |-> tracts[t].geometry,
                       TractName |-> hits[k].TractName,
                       MedianHouseholdIncome |-> hits[k].MedianHouseholdIncome ] ] ])

\* final_gdf.merge(camera_counts_per_tract, on='GEOID', how='left')
merge_counts(final, counts) ==
    Flatten([ t \in 1..Len(final) |->
        LET hits == SelectSeq(counts, LAMBDA r : r.GEOID = final[t].GEOID)
        IN  IF hits = <<>>
            THEN << [ GEOID |-> final[t].GEOID, geometry |-> final[t].geometry,
                      TractName |-> final[t].TractName,
                      MedianHouseholdIncome |-> final[t].MedianHouseholdIncome,
                      TotalCameras |-> NaN ] >>
            ELSE [ k \in 1..Len(hits) |->
                     [ GEOID |-> final[t].GEOID, geometry |-> final[t].geometry,
                       TractName |-> final[t].TractName,
                       MedianHouseholdIncome |-> final[t].MedianHouseholdIncome,
                       TotalCameras |-> hits[k].TotalCameras ] ] ])

\* mutant: the income column is left unfilled
fill_counts_only(final) ==
    [ i \in 1..Len(final) |-> [ final[i] EXCEPT !.TotalCameras = fillna0(@) ] ]

\* final_gdf['TotalCameras'].fillna(0, inplace=True) and the same on
\* 'MedianHouseholdIncome': the fill reaches final_gdf through the selected column,
\* as it does in pandas 1.x and 2.x
fill_final(final) ==
    [ i \in 1..Len(final) |->
        [ final[i] EXCEPT !.TotalCameras = fillna0(@),
                          !.MedianHouseholdIncome = fillna0(@) ] ]

MergeFinal ==
    /\ script \in {"flat", "structured"}
    /\ pc = "merge"
    /\ final_gdf' = fill_final(merge_counts(merge_income(tracts_gdf, income_df),
                                            camera_counts_per_tract))
    /\ pc' = "save"
    /\ UNCHANGED << files, acquisitionVars, income_df, camera_gdf, tracts_gdf, joined_gdf,
                    camera_counts_per_tract, outputFile, printed, joinVars, metricVars >>

----------------------------------------------------------------------------
(* section 7: final_gdf.to_file(output_geojson_path, driver='GeoJSON') *)

SaveGeoJson ==
    /\ script \in {"flat", "structured"}
    /\ pc = "save"
    /\ outputFile' = [written |-> TRUE, features |-> final_gdf]
    /\ printed' = Append(printed, [msg |-> "Analysis complete."])
    /\ pc' = "done"
    /\ UNCHANGED << files, acquisitionVars, mapVars, joinVars, metricVars >>

----------------------------------------------------------------------------
(* Input files of analyze_camera_distribution *)

\* coordinate pairs <<lon, lat>>
P1 == << 1, 1 >>

P2 == << 2, 1 >>

P3 == << 1, 2 >>

P4 == << 2, 2 >>

Coordinates == { P1, P2, P3, P4 }

\* P1 lies in tract A only, P3 in tract B only, P4 in no tract; the overlapping
\* variant of tract B also covers P2 of tract A (a defective partition)
TractA == [ GEOID |-> <<"A">>, geometry |-> { P1, P2 } ]

TractB == [ GEOID |-> <<"B">>, geometry |-> { P3 } ]

TractBOverlap == [ GEOID |-> <<"B">>, geometry |-> { P2, P3 } ]

TractC == [ GEOID |-> <<"C">>, geometry |-> {} ]

TractFiles ==
    { << TractA, TractB, TractC >>, << TractA, TractBOverlap, TractC >>,
      << TractBOverlap, TractA >>, << TractC >> }

GeoIds == { <<"9", "U", "S", "A">>, <<"8", "U", "S", "A">>, <<"9", "U", "S", "B">> }

\* the text of a DP03_0062E cell: a number, the ACS placeholder "-", an empty cell
IncomeCells == { << <<"5", "0">> >>, << <<"-">> >>, NaN }

CensusRows ==
    { [ GEO_ID |-> g, NAME |-> << <<"name of">> \o g[1] >>, DP03_0062E |-> c ] :
        g \in { <<x>> : x \in GeoIds }, c \in IncomeCells }
    \cup { [ GEO_ID |-> NaN, NAME |-> NaN, DP03_0062E |-> NaN ] }

CensusFiles == SeqsUpTo(CensusRows, MaxCensusRows)

CsvRow(lat, lon) == [ Latitude |-> lat, Longitude |-> lon ]

CsvFile(rows) == [ columns |-> { lat_col, lon_col }, rows |-> rows ]

FlatRows == { CsvRow(lat, lon) : lat \in { <<1>>, <<2>>, NaN }, lon \in { <<1>>, <<2>>, NaN } }

FlatFiles ==
    { CsvFile(rows) : rows \in SeqsUpTo(FlatRows, MaxCameraRows) }
    \cup { [ columns |-> { "lat", "lon" }, rows |-> << >> ],
           [ columns |-> { lon_col }, rows |-> << >> ] }

Cameras(n) == [ k \in 1..n |-> "camera" ]

CameraListLens == 0..2

PropertiesPool ==
    { <<>>,
      [ log_stats |-> <<>> ],
      [ log_stats |-> [ other |-> 1 ] ] }
    \cup { [ log_stats |-> [ cameras |-> Cameras(n) ] ] : n \in CameraListLens }

Feature(props, point) == [ properties |-> props, geometry |-> [ coordinates |-> point ] ]

Features == { Feature(props, point) : props \in PropertiesPool, point \in Coordinates }

StructuredFiles == { [ features |-> fs ] : fs \in SeqsUpTo(Features, MaxCameraRows) }

CameraInputs(flat, structured) ==
    { [ script |-> "flat", file |-> f ] : f \in flat }
    \cup { [ script |-> "structured", file |-> f ] : f \in structured }

InitMap(censusFiles, cameraInputs, tractFiles) ==
    /\ \E c \in cameraInputs : script = c.script /\ cameraFile = c.file
    /\ censusFile \in censusFiles
    /\ tractsFile \in tractFiles
    /\ pc = "census"
    /\ NoAcquisition
    /\ income_df = NoFrame
    /\ camera_gdf = NoFrame
    /\ tracts_gdf = NoFrame
    /\ joined_gdf = NoFrame
    /\ camera_counts_per_tract = NoFrame
    /\ final_gdf = NoFrame
    /\ outputFile = NoFile
    /\ printed = << >>
    /\ dp03File = NoFile
    /\ dp05File = NoFile
    /\ df_dp03 = NoFrame
    /\ df_dp05 = NoFrame
    /\ merged_df = NoFrame
    /\ geojsonFile = NoFile
    /\ gdf = NoFrame
    /\ extra_vars_df = NoFrame
    /\ analysis_gdf = NoFrame
    /\ analysis_gdf_clean = NoFrame
    /\ income_data = NoFrame
    /\ poverty_data = NoFrame
    /\ bracket_analysis = NoFrame

\* a few camera files, for the runs that vary the census table
FewCameraInputs ==
    CameraInputs(
        { CsvFile(<< CsvRow(<<1>>, <<1>>), CsvRow(<<1>>, <<1>>), CsvRow(<<2>>, <<2>>) >>),
          CsvFile(<< >>) },
        { [ features |-> << Feature([ log_stats |-> [ cameras |-> Cameras(2) ] ], P2) >> ],
          [ features |-> << Feature(<<>>, P3), Feature(<<>>, P1) >> ] })

\* one census table, for the runs that vary the camera file
OneCensusFile ==
    << [ GEO_ID |-> << <<"9", "U", "S", "A">> >>, NAME |-> << <<"name of", "9", "U", "S", "A">> >>,
         DP03_0062E |-> << <<"5", "0">> >> ] >>

Init == InitMap(CensusFiles, FewCameraInputs, TractFiles)

InitAggregate ==
    InitMap({ OneCensusFile }, CameraInputs(FlatFiles, StructuredFiles), TractFiles)

Next ==
    \/ PrepareCensus
    \/ PrepareCamerasCsv
    \/ PrepareCamerasGeoJson
    \/ LoadTracts
    \/ SpatialJoin
    \/ AggregatePerTract
    \/ MergeFinal
    \/ SaveGeoJson

Spec == Init /\ [][Next]_vars

SpecAggregate == InitAggregate /\ [][Next]_vars

----------------------------------------------------------------------------
(* join_script.py: join_census_data.  A CSV file is its header (the column *)
(* names, in order) and the lines below it; a line maps each column name   *)
(* to its cell.  The first line below the header is the description row.   *)

key == "GEO_ID"

\* pd.read_csv(path, header=0, skiprows=[1], dtype={'GEO_ID': str})
read_csv_skip1(file) ==
    [ columns |-> file.header,
      rows    |-> IF file.lines = <<>> THEN <<>> ELSE Tail(file.lines) ]

LoadTables ==
    /\ script = "join"
    /\ pc = "load"
    /\ df_dp03' = read_csv_skip1(dp03File)
    /\ df_dp05' = read_csv_skip1(dp05File)
    /\ printed' = Append(printed, [msg |-> "Data loaded successfully."])
    /\ pc' = "join"
    /\ UNCHANGED << files, acquisitionVars, mapVars, metricVars, merged_df, outputFile >>

\* the non-key column names the two tables share
Overlapping(left, right) == (Range(left.columns) \cap Range(right.columns)) \ { key }

\* mutant: a cross join, every left row pairs with every right row
cross_join_pairs(left, right) ==
    Flatten([ i \in 1..Len(left.rows) |-> [ j \in 1..Len(right.rows) |-> << i, j >> ] ])

\* how='inner': the pairs (left row, right row) of equal key, in left order;
\* pandas matches a NaN key with a NaN key
inner_join_pairs(left, right) ==
    Flatten([ i \in 1..Len(left.rows) |->
        SelectSeq([ j \in 1..Len(right.rows) |-> << i, j >> ],
                  LAMBDA p : left.rows[p[1]][key] = right.rows[p[2]][key]) ])

\* pd.merge(left, right, on='GEO_ID', how='inner'), suffixes ('_x', '_y')
pd_merge(left, right) ==
    LET shared     == Overlapping(left, right)
        rightCols  == SelectSeq(right.columns, LAMBDA c : c # key)
        leftNames  == [ k \in 1..Len(left.columns) |->
                          IF left.columns[k] \in shared
                          THEN left.columns[k] \o "_x" ELSE left.columns[k] ]
        rightNames == [ k \in 1..Len(rightCols) |->
                          IF rightCols[k] \in shared
                          THEN rightCols[k] \o "_y" ELSE rightCols[k] ]
        pairs      == inner_join_pairs(left, right)
    IN  [ columns |-> leftNames \o rightNames,
          rows    |-> [ n \in 1..Len(pairs) |->
                          [ c \in Range(leftNames) \cup Range(rightNames) |->
                              IF \E k \in 1..Len(leftNames) : leftNames[k] = c
                              THEN left.rows[pairs[n][1]]
                                     [left.columns[CHOOSE k \in 1..Len(leftNames) : leftNames[k] = c]]
                              ELSE right.rows[pairs[n][2]]
                                     [rightCols[CHOOSE k \in 1..Len(rightNames) : rightNames[k] = c]] ] ] ]

PerformJoin ==
    /\ script = "join"
    /\ pc = "join"
    /\ IF key \in Range(df_dp03.columns) /\ key \in Range(df_dp05.columns)
       THEN /\ merged_df' = pd_merge(df_dp03, df_dp05)
            /\ pc' = "clean"
            /\ UNCHANGED printed
       \* pd.merge raises KeyError('GEO_ID')
       ELSE /\ HandleException("'GEO_ID'")
            /\ UNCHANGED merged_df
    /\ UNCHANGED << files, acquisitionVars, mapVars, metricVars, df_dp03, df_dp05, outputFile >>

\* df.drop(columns=[name])
drop_column(df, name) ==
    [ columns |-> SelectSeq(df.columns, LAMBDA c : c # name),
      rows    |-> [ n \in 1..Len(df.rows) |->
                      [ c \in (DOMAIN df.rows[n]) \ { name } |-> df.rows[n][c] ] ] ]

\* df.rename(columns={old: new})
rename_column(df, old, new) ==
    [ columns |-> [ k \in 1..Len(df.columns) |->
                      IF df.columns[k] = old THEN new ELSE df.columns[k] ],
      rows    |-> [ n \in 1..Len(df.rows) |->
                      [ c \in ((DOMAIN df.rows[n]) \ { old }) \cup { new } |->
                          IF c = new THEN df.rows[n][old] ELSE df.rows[n][c] ] ] ]

\* mutant: the right table's NAME is kept and the left table's dropped
clean_columns_keep_right(df) ==
    LET dropped == IF "NAME_x" \in Range(df.columns) THEN drop_column(df, "NAME_x") ELSE df
    IN  IF "NAME_y" \in Range(dropped.columns)
        THEN rename_column(dropped, "NAME_y", "NAME") ELSE dropped

\* drop 'NAME_y' if present, then rename 'NAME_x' to 'NAME' if present
clean_columns(df) ==
    LET dropped == IF "NAME_y" \in Range(df.columns) THEN drop_column(df, "NAME_y") ELSE df
    IN  IF "NAME_x" \in Range(dropped.columns)
        THEN rename_column(dropped, "NAME_x", "NAME") ELSE dropped

CleanUpColumns ==
    /\ script = "join"
    /\ pc = "clean"
    /\ merged_df' = clean_columns(merged_df)
    /\ printed' = Append(printed, [msg |-> "Join complete. Columns cleaned."])
    /\ pc' = "save"
    /\ UNCHANGED << files, acquisitionVars, mapVars, metricVars, df_dp03, df_dp05, outputFile >>

\* merged_df.to_csv(output_path, index=False)
SaveCsv ==
    /\ script = "join"
    /\ pc = "save"
    /\ outputFile' = [ written |-> TRUE, columns |-> merged_df.columns, rows |-> merged_df.rows ]
    /\ printed' = Append(printed, [msg |-> "Successfully saved the joined data"])
    /\ pc' = "done"
    /\ UNCHANGED << files, acquisitionVars, mapVars, joinVars, metricVars >>

\* the keys of the data rows: two tract identifiers and an empty cell
KeyCells == { << "1400000US25001" >>, << "1400000US25003" >>, NaN }

Dp03Headers ==
    { << "GEO_ID", "NAME", "DP03_0001E" >>, << "GEO_ID", "NAME", "STATE", "DP03_0001E" >>,
      << "GEO_ID", "DP03_0001E" >>, << "NAME", "DP03_0001E" >> }

Dp05Headers ==
    { << "GEO_ID", "NAME", "DP05_0001E" >>, << "GEO_ID", "NAME", "STATE", "DP05_0001E" >>,
      << "GEO_ID", "DP05_0001E" >>, << "NAME", "DP05_0001E" >> }

\* every cell other than the key holds its own text: <<table, line, column>>
CsvLine(table, header, n, k) ==
    [ c \in Range(header) |-> IF c = key THEN k ELSE << << table, n, c >> >> ]

TableFile(table, header, keys) ==
    [ header |-> header,
      lines  |-> << CsvLine(table, header, 0, << "Geography" >>) >>
                 \o [ n \in 1..Len(keys) |-> CsvLine(table, header, n, keys[n]) ] ]

InitJoin ==
    /\ script = "join"
    /\ pc = "load"
    /\ NoAcquisition
    /\ \E h \in Dp03Headers, ks \in SeqsUpTo(KeyCells, MaxTableRows) :
         dp03File = TableFile("dp03", h, ks)
    /\ \E h \in Dp05Headers, ks \in SeqsUpTo(KeyCells, MaxTableRows) :
         dp05File = TableFile("dp05", h, ks)
    /\ censusFile = NoFile
    /\ cameraFile = NoFile
    /\ tractsFile = NoFile
    /\ income_df = NoFrame
    /\ camera_gdf = NoFrame
    /\ tracts_gdf = NoFrame
    /\ joined_gdf = NoFrame
    /\ camera_counts_per_tract = NoFrame
    /\ final_gdf = NoFrame
    /\ outputFile = NoFile
    /\ printed = << >>
    /\ df_dp03 = NoFrame
    /\ df_dp05 = NoFrame
    /\ merged_df = NoFrame
    /\ geojsonFile = NoFile
    /\ gdf = NoFrame
    /\ extra_vars_df = NoFrame
    /\ analysis_gdf = NoFrame
    /\ analysis_gdf_clean = NoFrame
    /\ income_data = NoFrame
    /\ poverty_data = NoFrame
    /\ bracket_analysis = NoFrame

NextJoin ==
    \/ LoadTables
    \/ PerformJoin
    \/ CleanUpColumns
    \/ SaveCsv

SpecJoin == InitJoin /\ [][NextJoin]_vars

----------------------------------------------------------------------------
(* perform_statistical_analysis (anal.py, visualizations.py): arithmetic.  *)
(* A float is the fraction [num, den] in lowest terms, den > 0.            *)

RECURSIVE GCD(_, _)
GCD(a, b) == IF b = 0 THEN a ELSE GCD(b, a % b)

Abs(x) == IF x < 0 THEN 0 - x ELSE x

Frac(n, d) ==
    LET g == GCD(Abs(n), d)
    IN  [ num |-> (IF n < 0 THEN 0 - (Abs(n) \div g) ELSE n \div g), den |-> d \div g ]

FracAdd(a, b) == Frac(a.num * b.den + b.num * a.den, a.den * b.den)

RECURSIVE FracSum(_)
FracSum(s) == IF s = <<>> THEN Frac(0, 1) ELSE FracAdd(Head(s), FracSum(Tail(s)))

\* Series.mean(): NaN cells are skipped, the mean of nothing is NaN
Mean(cells) ==
    LET present == SelectSeq(cells, LAMBDA c : c # NaN)
        total   == FracSum([ i \in 1..Len(present) |-> present[i][1] ])
    IN  IF present = <<>> THEN NaN
        ELSE << Frac(total.num, total.den * Len(present)) >>

\* a comparison with a NaN cell is False
Positive(cell) == cell # NaN /\ cell[1] > 0

\* mutant: the quotient without the factor 1000
CamerasPerPerson(row) ==
    IF Positive(row.TotalPopulation)
    THEN IF row.TotalCameras = NaN THEN NaN
         ELSE << Frac(row.TotalCameras[1], row.TotalPopulation[1]) >>
    ELSE << Frac(0, 1) >>

\* lambda row: (row['TotalCameras'] / row['TotalPopulation'] * 1000)
\*             if row['TotalPopulation'] > 0 else 0
CamerasPer1000People(row) ==
    IF Positive(row.TotalPopulation)
    THEN IF row.TotalCameras = NaN THEN NaN
         ELSE << Frac(row.TotalCameras[1] * 1000, row.TotalPopulation[1]) >>
    ELSE << Frac(0, 1) >>

with_density(frame) ==
    [ i \in 1..Len(frame) |->
        frame[i] @@ [ CamerasPer1000People |-> CamerasPer1000People(frame[i]) ] ]

\* mutant: the filter keeps every record
keep_all(frame) == frame

\* frame[frame['TotalPopulation'] > 0]
population_filter(frame) == SelectSeq(frame, LAMBDA row : Positive(row.TotalPopulation))

\* frame[frame['MedianHouseholdIncome'] > 0]
income_filter(frame) == SelectSeq(frame, LAMBDA row : Positive(row.MedianHouseholdIncome))

\* frame[[x, 'CamerasPer1000People']].dropna()
pairs_dropna(frame, x) ==
    LET kept == SelectSeq(frame, LAMBDA row : row[x] # NaN /\ row.CamerasPer1000People # NaN)
    IN  [ i \in 1..Len(kept) |-> [ x |-> kept[i][x][1], y |-> kept[i].CamerasPer1000People[1] ] ]

----------------------------------------------------------------------------
(* The Pearson coefficient r = cov / sqrt(vx * vy) of the pairs.  r does   *)
(* not change when every y is multiplied by one positive number, so the    *)
(* fractions y are first brought to whole numbers without a common factor. *)

RECURSIVE SeqSumOf(_)
SeqSumOf(s) == IF s = <<>> THEN 0 ELSE Head(s) + SeqSumOf(Tail(s))

RECURSIVE LCMDen(_)
LCMDen(ys) ==
    IF ys = <<>> THEN 1
    ELSE LET l == LCMDen(Tail(ys)) IN (l \div GCD(l, Head(ys).den)) * Head(ys).den

RECURSIVE GCDAll(_)
GCDAll(s) == IF s = <<>> THEN 0 ELSE GCD(Abs(Head(s)), GCDAll(Tail(s)))

whole(ys) ==
    LET l == LCMDen(ys)
        w == [ i \in 1..Len(ys) |-> ys[i].num * (l \div ys[i].den) ]
        g == GCDAll(w)
    IN  IF g = 0 THEN w ELSE [ i \in 1..Len(w) |-> w[i] \div g ]

pearson(pairs) ==
    LET n  == Len(pairs)
        xs == [ i \in 1..n |-> pairs[i].x ]
        ys == whole([ i \in 1..n |-> pairs[i].y ])
        sx == SeqSumOf(xs)
        sy == SeqSumOf(ys)
    IN  [ n   |-> n,
          cov |-> n * SeqSumOf([ i \in 1..n |-> xs[i] * ys[i] ]) - sx * sy,
          vx  |-> n * SeqSumOf([ i \in 1..n |-> xs[i] * xs[i] ]) - sx * sx,
          vy  |-> n * SeqSumOf([ i \in 1..n |-> ys[i] * ys[i] ]) - sy * sy ]

\* the coefficient is NaN for fewer than two pairs or a constant column
is_nan(r) == r.n < 2 \/ r.vx = 0 \/ r.vy = 0

\* r > a/b and r < -a/b for a, b > 0; a comparison with NaN is False
greater(r, a, b) == ~ is_nan(r) /\ r.cov > 0 /\ b * b * r.cov * r.cov > a * a * r.vx * r.vy

less_minus(r, a, b) == ~ is_nan(r) /\ r.cov < 0 /\ b * b * r.cov * r.cov > a * a * r.vx * r.vy

\* mutant: the thresholds are included, r >= 0.5 and so on
interpretation_inclusive(r) ==
    LET at(a, b) == ~ is_nan(r) /\ b * b * r.cov * r.cov = a * a * r.vx * r.vy
    IN  IF greater(r, 1, 2) \/ (at(1, 2) /\ r.cov > 0) THEN "Strong positive correlation"
        ELSE IF greater(r, 1, 10) \/ (at(1, 10) /\ r.cov > 0) THEN "Weak positive correlation"
        ELSE IF less_minus(r, 1, 2) \/ (at(1, 2) /\ r.cov < 0) THEN "Strong negative correlation"
        ELSE IF less_minus(r, 1, 10) \/ (at(1, 10) /\ r.cov < 0) THEN "Weak negative correlation"
        ELSE "No significant linear correlation"

\* anal.py lines 38-47: the thresholds 0.5 and 0.1
interpretation(r) ==
    IF greater(r, 1, 2) THEN "Strong positive correlation"
    ELSE IF greater(r, 1, 10) THEN "Weak positive correlation"
    ELSE IF less_minus(r, 1, 2) THEN "Strong negative correlation"
    ELSE IF less_minus(r, 1, 10) THEN "Weak negative correlation"
    ELSE "No significant linear correlation"

----------------------------------------------------------------------------
(* pd.qcut(values, q, labels): the q + 1 bin edges are the quantiles k/q   *)
(* of the values, linearly interpolated; an edge is held as q times its    *)
(* value, which is a whole number.                                         *)

RECURSIVE Insert(_, _)
Insert(x, s) ==
    IF s = <<>> THEN << x >>
    ELSE IF x <= Head(s) THEN << x >> \o s
    ELSE << Head(s) >> \o Insert(x, Tail(s))

RECURSIVE SortInts(_)
SortInts(s) == IF s = <<>> THEN <<>> ELSE Insert(Head(s), SortInts(Tail(s)))

QuantileEdge(x, q, k) ==
    LET h  == (Len(x) - 1) * k
        lo == h \div q
        r  == h % q
    IN  IF r = 0 THEN q * x[lo + 1]
        ELSE q * x[lo + 1] + r * (x[lo + 2] - x[lo + 1])

bin_edges(values, q) ==
    LET x == SortInts(values) IN [ k \in 1..(q + 1) |-> QuantileEdge(x, q, k - 1) ]

\* qcut raises ValueError: no values (every edge is NaN), or two equal edges.
\* duplicates='raise' raises "Bin edges must be unique"; duplicates='drop'
\* drops the equal edges and then raises "Bin labels must be one fewer than
\* the number of bin edges", the labels being as many as q
qcut_fails(values, q) ==
    \/ values = <<>>
    \/ \E k \in 1..q : bin_edges(values, q)[k] = bin_edges(values, q)[k + 1]

\* the bin of v: intervals are closed on the right, the lowest edge is included
bin_of(v, edges, q) ==
    CHOOSE k \in 1..q : q * v <= edges[k + 1] /\ \A j \in 1..(k - 1) : q * v > edges[j + 1]

incomes(frame) == [ i \in 1..Len(frame) |-> frame[i].MedianHouseholdIncome[1] ]

labels5 == << "Lowest", "Low-Mid", "Mid", "Mid-High", "Highest" >>

labels3 == << "Low", "Medium", "High" >>

\* frame.groupby('IncomeBracket', observed=False)['CamerasPer1000People'].mean()
\* after frame['IncomeBracket'] = pd.qcut(frame['MedianHouseholdIncome'], q, labels)
bracket_means(frame, labels) ==
    LET q      == Len(labels)
        edges  == bin_edges(incomes(frame), q)
    IN  [ k \in 1..q |->
            LET members == SelectSeq(frame,
                    LAMBDA row : bin_of(row.MedianHouseholdIncome[1], edges, q) = k)
            IN  [ IncomeBracket        |-> labels[k],
                  CamerasPer1000People |->
                      Mean([ i \in 1..Len(members) |-> members[i].CamerasPer1000People ]) ] ]
----------------------------------------------------------------------------
(* anal.py: perform_statistical_analysis(geojson_path) *)

\* except Exception as e: print(f"An unexpected error occurred during analysis: {e}")
AnalysisFailed(before, e) ==
    /\ pc' = "failed"
    /\ printed' = printed \o before \o
           << [msg |-> "An unexpected error occurred during analysis", error |-> e] >>

\* lines 14-23: read the file, add the density column
Anal_LoadAndDensity ==
    /\ script = "anal"
    /\ pc = "m_load"
    /\ IF "TotalPopulation" \notin geojsonFile.columns
       THEN /\ AnalysisFailed(<< [msg |-> "Loading data"] >>, "'TotalPopulation'")
            /\ UNCHANGED gdf
       ELSE IF /\ "TotalCameras" \notin geojsonFile.columns
               /\ \E i \in 1..Len(geojsonFile.features) :
                     Positive(geojsonFile.features[i].TotalPopulation)
       THEN /\ AnalysisFailed(<< [msg |-> "Loading data"] >>, "'TotalCameras'")
            /\ UNCHANGED gdf
       ELSE /\ gdf' = with_density(geojsonFile.features)
            /\ printed' = Append(printed, [msg |-> "Loading data"])
            /\ pc' = "m_filter"
    /\ UNCHANGED << files, acquisitionVars, mapVars, joinVars, outputFile, extra_vars_df, analysis_gdf,
                    analysis_gdf_clean, income_data, poverty_data, bracket_analysis >>

overview_columns == { "TractName", "MedianHouseholdIncome", "TotalPopulation", "TotalCameras" }

\* lines 26-29: the population filter and the data overview
Anal_Filter ==
    /\ script = "anal"
    /\ pc = "m_filter"
    /\ analysis_gdf' = population_filter(gdf)
    /\ IF overview_columns \subseteq geojsonFile.columns
       THEN /\ printed' = Append(printed, [msg |-> "Data Overview"])
            /\ pc' = "m_corr"
       ELSE AnalysisFailed(<< >>, "not in index")
    /\ UNCHANGED << files, acquisitionVars, mapVars, joinVars, outputFile, gdf, extra_vars_df,
                    analysis_gdf_clean, income_data, poverty_data, bracket_analysis >>

\* lines 32-47: Series.corr leaves out the pairs with a NaN and never raises
Anal_Correlation ==
    /\ script = "anal"
    /\ pc = "m_corr"
    /\ income_data' = pairs_dropna(analysis_gdf, "MedianHouseholdIncome")
    /\ LET r == pearson(income_data')
       IN  printed' = printed \o
               << [msg |-> "Correlation between Median Household Income and Camera Density",
                   correlation |-> r],
                  [msg |-> "Interpretation", text |-> interpretation(r)] >>
    /\ pc' = "m_brackets"
    /\ UNCHANGED << files, acquisitionVars, mapVars, joinVars, outputFile, gdf, extra_vars_df, analysis_gdf,
                    analysis_gdf_clean, poverty_data, bracket_analysis >>

\* lines 50-70: five brackets, three when pd.qcut raises ValueError; a
\* ValueError of the second pd.qcut leaves the function through line 74
Anal_Brackets ==
    /\ script = "anal"
    /\ pc = "m_brackets"
    /\ LET valid    == income_filter(analysis_gdf)
           fallback == [msg |-> "Could not compute 5 income brackets, falling back to 3."]
       IN  IF ~ qcut_fails(incomes(valid), 5)
           THEN /\ bracket_analysis' = bracket_means(valid, labels5)
                /\ printed' = Append(printed, [msg |-> "Camera Density by Income Bracket"])
                /\ pc' = "done"
           ELSE IF ~ qcut_fails(incomes(valid), 3)
           THEN /\ bracket_analysis' = bracket_means(valid, labels3)
                /\ printed' = printed \o
                       << fallback, [msg |-> "Camera Density by Income Bracket"] >>
                /\ pc' = "done"
           ELSE /\ AnalysisFailed(<< fallback >>, "Bin edges must be unique")
                /\ UNCHANGED bracket_analysis
    /\ UNCHANGED << files, acquisitionVars, mapVars, joinVars, outputFile, gdf, extra_vars_df, analysis_gdf,
                    analysis_gdf_clean, income_data, poverty_data >>

----------------------------------------------------------------------------
(* visualizations.py: perform_statistical_analysis(geojson_path, census_data_path) *)

chicopee_median == 66927

\* except (FileNotFoundError, KeyError, AssertionError) as e:
\*     logger.error(f"Data processing failed: {e}")
DataProcessingFailed(e) ==
    /\ pc' = "failed"
    /\ printed' = Append(printed, [msg |-> "Data processing failed", error |-> e])

\* except Exception as e: logger.exception("An unexpected and critical error occurred:")
CriticalError(e) ==
    /\ pc' = "failed"
    /\ printed' = Append(printed,
           [msg |-> "An unexpected and critical error occurred:", error |-> e])

\* lines 113-119: read the file, the three assertions
Vis_LoadAndValidate ==
    /\ script = "visualizations"
    /\ pc = "m_load"
    /\ IF geojsonFile.features = << >>
       THEN /\ DataProcessingFailed("GeoJSON file is empty or could not be loaded.")
            /\ UNCHANGED gdf
       ELSE IF "TotalCameras" \notin geojsonFile.columns
       THEN /\ DataProcessingFailed("GeoJSON is missing 'TotalCameras' data. Please re-run the data creation script.")
            /\ UNCHANGED gdf
       ELSE IF "TotalPopulation" \notin geojsonFile.columns
       THEN /\ DataProcessingFailed("GeoJSON is missing 'TotalPopulation' data. Please re-run the data creation script.")
            /\ UNCHANGED gdf
       ELSE /\ gdf' = geojsonFile.features
            /\ printed' = Append(printed, [msg |-> "Loading data"])
            /\ pc' = "m_merge"
    /\ UNCHANGED << files, acquisitionVars, mapVars, joinVars, outputFile, extra_vars_df, analysis_gdf,
                    analysis_gdf_clean, income_data, poverty_data, bracket_analysis >>

\* census_df['GEOID'] = census_df['GEO_ID'].apply(lambda x: x.split('US')[-1])
\* extra_vars_df = census_df[['GEOID', 'DP03_0128PE']], renamed to PovertyRate
select_extra_vars(file) ==
    [ i \in 1..Len(file) |->
        [ GEOID       |-> SplitLast(file[i].GEO_ID[1]),
          PovertyRate |-> file[i].DP03_0128PE ] ]

\* gdf.merge(extra_vars_df, on='GEOID', how='left')
merge_extra_vars(frame, extra) ==
    Flatten([ t \in 1..Len(frame) |->
        LET hits == SelectSeq(extra, LAMBDA r : r.GEOID = frame[t].GEOID)
        IN  IF hits = <<>>
            THEN << frame[t] @@ [ PovertyRate |-> NaN ] >>
            ELSE [ k \in 1..Len(hits) |-> frame[t] @@ [ PovertyRate |-> hits[k].PovertyRate ] ] ])

\* lines 121-129: the poverty column of the census table, joined on GEOID
Vis_MergeCensus ==
    /\ script = "visualizations"
    /\ pc = "m_merge"
    /\ IF ~ CensusLoadable(censusFile)
       THEN /\ CriticalError("'float' object has no attribute 'split'")
            /\ UNCHANGED << extra_vars_df, analysis_gdf >>
       ELSE IF \E i \in 1..Len(censusFile) : "DP03_0128PE" \notin DOMAIN censusFile[i]
       THEN /\ DataProcessingFailed("['DP03_0128PE'] not in index")
            /\ UNCHANGED << extra_vars_df, analysis_gdf >>
       ELSE IF "GEOID" \notin geojsonFile.columns
       THEN /\ extra_vars_df' = select_extra_vars(censusFile)
            /\ DataProcessingFailed("'GEOID'")
            /\ UNCHANGED analysis_gdf
       ELSE /\ extra_vars_df' = select_extra_vars(censusFile)
            /\ analysis_gdf' = merge_extra_vars(gdf, extra_vars_df')
            /\ printed' = Append(printed, [msg |-> "Loading additional census data"])
            /\ pc' = "m_density"
    /\ UNCHANGED << files, acquisitionVars, mapVars, joinVars, outputFile, gdf,
                    analysis_gdf_clean, income_data, poverty_data, bracket_analysis >>

\* pd.to_numeric(analysis_gdf['PovertyRate'], errors='coerce')
poverty_to_numeric(frame) ==
    [ i \in 1..Len(frame) |-> [ frame[i] EXCEPT !.PovertyRate = to_numeric(@) ] ]

missing_poverty(frame) == Cardinality({ i \in 1..Len(frame) : frame[i].PovertyRate = NaN })

\* lines 132-141: the density column, the poverty column made numeric
Vis_Features ==
    /\ script = "visualizations"
    /\ pc = "m_density"
    /\ analysis_gdf' = poverty_to_numeric(with_density(analysis_gdf))
    /\ printed' = IF missing_poverty(analysis_gdf') > 0
                  THEN Append(printed, [msg |-> "tracts have missing poverty data",
                                        count |-> missing_poverty(analysis_gdf')])
                  ELSE printed
    /\ pc' = "m_filter"
    /\ UNCHANGED << files, acquisitionVars, mapVars, joinVars, outputFile, gdf, extra_vars_df,
                    analysis_gdf_clean, income_data, poverty_data, bracket_analysis >>

\* lines 143-153: the population filter, the comparison with the city median
Vis_Filter ==
    /\ script = "visualizations"
    /\ pc = "m_filter"
    /\ analysis_gdf_clean' = population_filter(analysis_gdf)
    /\ IF "MedianHouseholdIncome" \in geojsonFile.columns
       THEN /\ printed' = Append(printed,
                   [msg |-> "tracts are above the city's median income",
                    tracts_above_city_median |->
                        Len(SelectSeq(analysis_gdf_clean', LAMBDA row :
                              row.MedianHouseholdIncome # NaN
                              /\ row.MedianHouseholdIncome[1] > chicopee_median)),
                    total_tracts |-> Len(analysis_gdf_clean')])
            /\ pc' = "m_corr"
       ELSE DataProcessingFailed("'MedianHouseholdIncome'")
    /\ UNCHANGED << files, acquisitionVars, mapVars, joinVars, outputFile, gdf, extra_vars_df, analysis_gdf,
                    income_data, poverty_data, bracket_analysis >>

\* lines 156-166: scipy.stats.pearsonr raises ValueError for fewer than two pairs
Vis_Correlation ==
    /\ script = "visualizations"
    /\ pc = "m_corr"
    /\ income_data' = pairs_dropna(analysis_gdf_clean, "MedianHouseholdIncome")
    /\ IF Len(income_data') < 2
       THEN /\ CriticalError("x and y must have length at least 2.")
            /\ UNCHANGED poverty_data
       ELSE /\ poverty_data' = pairs_dropna(analysis_gdf_clean, "PovertyRate")
            /\ IF Len(poverty_data') < 2
               THEN CriticalError("x and y must have length at least 2.")
               ELSE /\ printed' = printed \o
                           << [msg |-> "Income vs. Cameras", correlation |-> pearson(income_data')],
                              [msg |-> "Poverty Rate vs. Cameras", correlation |-> pearson(poverty_data')] >>
                    /\ pc' = "m_brackets"
    /\ UNCHANGED << files, acquisitionVars, mapVars, joinVars, outputFile, gdf, extra_vars_df, analysis_gdf,
                    analysis_gdf_clean, bracket_analysis >>

\* lines 169-191: quintiles when at least five tracts have a positive income
Vis_Brackets ==
    /\ script = "visualizations"
    /\ pc = "m_brackets"
    /\ LET valid_income_gdf == income_filter(analysis_gdf_clean)
       IN  IF Len(valid_income_gdf) >= 5
           THEN IF qcut_fails(incomes(valid_income_gdf), 5)
                THEN /\ CriticalError("Bin labels must be one fewer than the number of bin edges")
                     /\ UNCHANGED bracket_analysis
                ELSE /\ bracket_analysis' = bracket_means(valid_income_gdf, labels5)
                     /\ printed' = Append(printed, [msg |-> "Camera Density by Income Bracket"])
                     /\ pc' = "m_plots"
           ELSE /\ printed' = Append(printed, [msg |-> "Insufficient data for income quintiles. Skipping bracket analysis and bar chart."])
                /\ pc' = "m_plots"
                /\ UNCHANGED bracket_analysis
    /\ UNCHANGED << files, acquisitionVars, mapVars, joinVars, outputFile, gdf, extra_vars_df, analysis_gdf,
                    analysis_gdf_clean, income_data, poverty_data >>

\* lines 194-210: the two plots; each helper catches its own exceptions
Vis_Plots ==
    /\ script = "visualizations"
    /\ pc = "m_plots"
    /\ printed' = Append(printed, [msg |-> "Generating analysis plots..."])
    /\ pc' = "done"
    /\ UNCHANGED << files, acquisitionVars, mapVars, joinVars, outputFile, metricVars >>
----------------------------------------------------------------------------
(* Input files of perform_statistical_analysis *)

TractId(i) == << "T", Digits[i + 1] >>

\* << TotalPopulation, TotalCameras, MedianHouseholdIncome >> of one tract
AttributePool ==
    << << 100, 5, 1 >>, << 10, 1, 2 >>, << 20, 2, 3 >>, << 10, 0, 4 >>, << 30, 1, 5 >>,
       << 0, 0, 3 >>, << 0 - 5, 1, 2 >>, << 10, 1, 0 >> >>

\* the sequences of n indices out of 1..m that never decrease: the tracts of a
\* file listed by ascending position in the pool
RECURSIVE NonDecreasing(_, _)
NonDecreasing(n, m) ==
    IF n = 0 THEN { << >> }
    ELSE { Append(p[1], p[2]) :
             p \in { q \in NonDecreasing(n - 1, m) \X (1..m) :
                       q[1] = << >> \/ q[1][n - 1] <= q[2] } }

AttributeChoices(max) == UNION { NonDecreasing(n, Len(AttributePool)) : n \in 0..max }

EnrichedFeature(i, a) ==
    [ GEOID                 |-> TractId(i),
      geometry              |-> {},
      TractName             |-> << TractId(i) >>,
      MedianHouseholdIncome |-> << a[3] >>,
      TotalCameras          |-> << a[2] >>,
      TotalPopulation       |-> << a[1] >> ]

EnrichedColumns ==
    { "GEOID", "geometry", "TractName", "MedianHouseholdIncome", "TotalCameras",
      "TotalPopulation" }

EnrichedFile(choice) ==
    [ columns  |-> EnrichedColumns,
      features |-> [ i \in 1..Len(choice) |-> EnrichedFeature(i, AttributePool[choice[i]]) ] ]

\* the columns that analyze_camera_distribution writes
BuilderColumns == { "GEOID", "geometry", "TractName", "MedianHouseholdIncome", "TotalCameras" }

WithoutPopulation(file) ==
    [ columns  |-> BuilderColumns,
      features |-> [ i \in 1..Len(file.features) |->
                       [ c \in BuilderColumns |-> file.features[i][c] ] ] ]

EnrichedFiles ==
    { EnrichedFile(choice) : choice \in AttributeChoices(MaxFeatures) }
    \cup { WithoutPopulation(EnrichedFile(choice)) : choice \in AttributeChoices(1) }

PovertyRow(i, cell) ==
    [ GEO_ID |-> << << "9", "U", "S" >> \o TractId(i) >>, DP03_0128PE |-> cell ]

PovertyCell(i) == << << Digits[i + 1] >> >>

\* the census tables for a file of n tracts: every rate present, the first one
\* the placeholder "-", no row at all, a row without identifier, a table
\* without the poverty column, the first tract listed twice
PovertyTables(n) ==
    { [ i \in 1..n |-> PovertyRow(i, PovertyCell(i)) ],
      [ i \in 1..n |-> PovertyRow(i, IF i = 1 THEN << << "-" >> >> ELSE PovertyCell(i)) ],
      << >>,
      << [ GEO_ID |-> NaN, DP03_0128PE |-> NaN ] >>,
      << [ GEO_ID |-> << << "9", "U", "S" >> \o TractId(1) >> ] >>,
      << PovertyRow(1, PovertyCell(1)) >> \o [ i \in 1..n |-> PovertyRow(i, PovertyCell(i)) ] }

\* the state before perform_statistical_analysis runs on the given inputs
InitAnalysis(inputs) ==
    /\ \E x \in inputs :
         /\ script = x.script
         /\ geojsonFile = x.geojson
         /\ censusFile = x.census
    /\ pc = "m_load"
    /\ NoAcquisition
    /\ cameraFile = NoFile
    /\ tractsFile = NoFile
    /\ income_df = NoFrame
    /\ camera_gdf = NoFrame
    /\ tracts_gdf = NoFrame
    /\ joined_gdf = NoFrame
    /\ camera_counts_per_tract = NoFrame
    /\ final_gdf = NoFrame
    /\ outputFile = NoFile
    /\ printed = << >>
    /\ dp03File = NoFile
    /\ dp05File = NoFile
    /\ df_dp03 = NoFrame
    /\ df_dp05 = NoFrame
    /\ merged_df = NoFrame
    /\ gdf = NoFrame
    /\ extra_vars_df = NoFrame
    /\ analysis_gdf = NoFrame
    /\ analysis_gdf_clean = NoFrame
    /\ income_data = NoFrame
    /\ poverty_data = NoFrame
    /\ bracket_analysis = NoFrame

\* anal.py reads no census table; its file holds at least one tract
AnalInputs(geojsons) ==
    { [ script |-> "anal", geojson |-> g, census |-> NoFile ] :
        g \in { f \in geojsons : f.features # << >> } }

VisInputs(geojsons) ==
    UNION { { [ script |-> "visualizations", geojson |-> g, census |-> c ] :
                c \in PovertyTables(Len(g.features)) } : g \in geojsons }

InitMetrics == InitAnalysis(AnalInputs(EnrichedFiles) \cup VisInputs(EnrichedFiles))

NextAnal ==
    \/ Anal_LoadAndDensity
    \/ Anal_Filter
    \/ Anal_Correlation
    \/ Anal_Brackets

NextVis ==
    \/ Vis_LoadAndValidate
    \/ Vis_MergeCensus
    \/ Vis_Features
    \/ Vis_Filter
    \/ Vis_Correlation
    \/ Vis_Brackets
    \/ Vis_Plots

NextMetrics == NextAnal \/ NextVis

SpecMetrics == InitMetrics /\ [][NextMetrics]_vars

----------------------------------------------------------------------------
(* Runs that vary the identifiers of the census table: the two map builders *)
(* and visualizations.py read the same joined census CSV                    *)

\* "9USA", "123US456", "US1USB" (the marker twice), "A" (no marker), "9US"
NormalizeIds ==
    { << "9", "U", "S", "A" >>, << "1", "2", "3", "U", "S", "4", "5", "6" >>,
      << "U", "S", "1", "U", "S", "B" >>, << "A" >>, << "9", "U", "S" >> }

NormalizeRows ==
    { [ GEO_ID |-> << g >>, NAME |-> << << "name of" >> \o g >>,
        DP03_0062E |-> << << "5", "0" >> >>, DP03_0128PE |-> << << "7" >> >> ] :
        g \in NormalizeIds }
    \cup { [ GEO_ID |-> NaN, NAME |-> NaN, DP03_0062E |-> NaN, DP03_0128PE |-> NaN ] }

NormalizeFiles == SeqsUpTo(NormalizeRows, MaxCensusRows)

\* an enriched file of the tracts A and B
TwoTractFile ==
    [ columns  |-> EnrichedColumns,
      features |-> << [ EnrichedFeature(1, AttributePool[1]) EXCEPT !.GEOID = << "A" >> ],
                      [ EnrichedFeature(2, AttributePool[2]) EXCEPT !.GEOID = << "B" >> ] >> ]

InitNormalize ==
    \/ InitMap(NormalizeFiles, FewCameraInputs, TractFiles)
    \/ InitAnalysis({ [ script |-> "visualizations", geojson |-> TwoTractFile, census |-> c ] :
                        c \in NormalizeFiles })

NextNormalize == Next \/ NextVis

SpecNormalize == InitNormalize /\ [][NextNormalize]_vars

----------------------------------------------------------------------------
(* The analysis scripts run on the file the map builder wrote: both name    *)
(* 'camera_income_analysis.geojson' in their main blocks.  Neither script   *)
(* gets past its first step on that file, so only the first steps appear.   *)

RunAnalysis ==
    /\ script \in { "flat", "structured" }
    /\ pc = "done"
    /\ script' \in { "anal", "visualizations" }
    /\ geojsonFile' = [ columns |-> BuilderColumns, features |-> outputFile.features ]
    /\ pc' = "m_load"
    /\ UNCHANGED << censusFile, cameraFile, tractsFile, dp03File, dp05File, mapVars,
                    joinVars, metricVars, outputFile, printed, acquisitionVars >>

NextPipeline == Next \/ RunAnalysis \/ Anal_LoadAndDensity \/ Vis_LoadAndValidate

SpecPipeline == Init /\ [][NextPipeline]_vars

----------------------------------------------------------------------------
(* One neighbourhood in every arrangement of its files: the tracts A, B and *)
(* C, a census row for A (income 50000) and one for B (100000), four camera *)
(* points within A and two within B.                                        *)

ScenarioTracts ==
    { << TractA, TractB, TractC >>, << TractA, TractC, TractB >>,
      << TractB, TractA, TractC >>, << TractB, TractC, TractA >>,
      << TractC, TractA, TractB >>, << TractC, TractB, TractA >> }

ScenarioRow(g, income) ==
    [ GEO_ID |-> << g >>, NAME |-> << << "name of" >> \o g >>, DP03_0062E |-> << income >> ]

ScenarioCensus ==
    LET a == ScenarioRow(<< "9", "U", "S", "A" >>, << "5", "0", "0", "0", "0" >>)
        b == ScenarioRow(<< "9", "U", "S", "B" >>, << "1", "0", "0", "0", "0", "0" >>)
    IN  { << a, b >>, << b, a >> }

\* four points out of P1 and P2, which lie within A, and two at P3, within B
ScenarioPoints ==
    UNION { { a \o << P3, P3 >>, << P3, P3 >> \o a, << P3 >> \o a \o << P3 >> } :
              a \in [ 1..4 -> { P1, P2 } ] }

ScenarioCameras ==
    CameraInputs(
        { CsvFile([ i \in 1..Len(ps) |-> CsvRow(<< ps[i][2] >>, << ps[i][1] >>) ]) :
            ps \in ScenarioPoints },
        { [ features |-> [ i \in 1..Len(ps) |-> Feature(<<>>, ps[i]) ] ] :
            ps \in ScenarioPoints })

InitScenario == InitMap(ScenarioCensus, ScenarioCameras, ScenarioTracts)

SpecScenario == InitScenario /\ [][Next]_vars

----------------------------------------------------------------------------
(* Runs that vary the text of the numeric census columns: the map builders  *)
(* parse the income column, visualizations.py the poverty column            *)

CoerceFiles == { EnrichedFile(choice) : choice \in AttributeChoices(3) }

InitCoerce ==
    \/ Init
    \/ InitAnalysis(VisInputs(CoerceFiles))

NextCoerce == Next \/ NextVis

SpecCoerce == InitCoerce /\ [][NextCoerce]_vars

----------------------------------------------------------------------------
(* Runs of the stages that declare a key column: join_census_data and the   *)
(* map builders, on files with and without that column                      *)

InitInputs == InitJoin \/ InitAggregate

NextInputs == NextJoin \/ Next

SpecInputs == InitInputs /\ [][NextInputs]_vars

----------------------------------------------------------------------------
(* What the caller of a stage receives.  analyze_camera_distribution and    *)
(* join_census_data hold their whole body in one try block: the except      *)
(* branches print and fall off the end of the function, as the try block    *)
(* does, so the call returns None either way and raises nothing.            *)

returns(position) == IF position \in { "done", "failed" } THEN "None" ELSE "running"

----------------------------------------------------------------------------
(* Runs of anal.py on tracts of 1000 people each, so that the density is    *)
(* the camera count; the pairs << income, cameras >> hold samples whose     *)
(* coefficient is exactly 0.5, -0.5, 0.1 and -0.1                           *)

MaxPairs == 4

PairPool ==
    << << 1, 0 >>, << 1, 1 >>, << 2, 0 >>, << 2, 1 >>, << 2, 3 >>,
       << 2, 4 >>, << 4, 3 >>, << 4, 4 >>, << 5, 0 >>, << 5, 1 >> >>

PairFiles ==
    { [ columns  |-> EnrichedColumns,
        features |-> [ i \in 1..Len(choice) |->
                         EnrichedFeature(i, << 1000, PairPool[choice[i]][2],
                                               PairPool[choice[i]][1] >>) ] ] :
        choice \in UNION { NonDecreasing(n, Len(PairPool)) : n \in 0..MaxPairs } }

InitThresholds == InitAnalysis(AnalInputs(PairFiles))

SpecThresholds == InitThresholds /\ [][NextAnal]_vars

-----------------------------------------------------------------------------
(* connect-counter/connect-counter.py and connect-counter.py: the scraper   *)
(* run from the command line.  The two scripts differ in their list of URLs *)
(* (the second has the single URL) and in the name of LOG_FILE.             *)

MaxUrls == 2

MaxRuns == 2

\* milliseconds by which the clock of a wait advances in one step
TickMs == 5000

None == << >>

goto_timeout == 60000

selector_timeout == 30000

animation_delay == 5000

\* geocode_earth.py: requests.get(..., timeout=20), in seconds
request_timeout == 20

\* URLS_TO_SCRAPE, and URL of the single script
URLS_TO_SCRAPE == << "https://connectchicopee.org/", "https://newyorkcityconnect.org/" >>

URL == "https://newyorkcityconnect.org/"

\* what inner_text() gives for a counter: digits, or nothing while the page
\* has not filled the element
CounterTexts == { "128", "" }

fieldnames == << "Timestamp", "URL", "Registered Cameras", "Integrated Cameras" >>

\* datetime.datetime.now().strftime("%Y-%m-%d %H:%M:%S")
strftime(now) == ToString(now)

\* mutant: the file is taken to be new at every call
never_isfile(file) == FALSE

\* os.path.isfile(LOG_FILE)
isfile(file) == file # NoFile

\* log_to_csv: the file after the call.  Mode 'a' creates the file when it is
\* absent and keeps every line it has
log_to_csv(file, timestamp, url, registered, integrated) ==
    LET file_exists == isfile(file)
        opened == IF file = NoFile THEN << >> ELSE file
        headed == IF ~ file_exists THEN Append(opened, fieldnames) ELSE opened
    IN  Append(headed, << timestamp, url, registered, integrated >>)

\* mutant: a wait has no time limit
never_TimedOut(position, elapsed) == FALSE

\* the time limit, in milliseconds, of the wait at a position of
\* get_camera_stats or of geocode_address
WaitLimit(position) ==
    CASE position = "s_goto" -> goto_timeout
      [] position = "s_selector" -> selector_timeout
      [] position = "s_animation" -> animation_delay
      [] position = "g_request" -> request_timeout * 1000

\* the wait has lasted as long as its timeout allows
TimedOut(position, elapsed) == elapsed >= WaitLimit(position)

\* a string is true unless it is empty; None is false
truthy(value) == value # None /\ value # << "" >>

\* the clock of the wait in progress
TimePasses ==
    /\ script \in { "connect-counter", "connect-counter-single", "geocode_earth" }
    /\ pc \in { "s_goto", "s_selector", "s_animation", "g_request" }
    /\ waited < WaitLimit(pc)
    /\ waited' = waited + TickMs
    /\ UNCHANGED << files, pc, urls, logFile, browser, index, stats, clock, runs, printed,
                    outputFile, mapVars, joinVars, metricVars, guiVars, df_locations >>

\* print("Starting camera stats scraper for multiple URLs..."), then the loop
Main_Start ==
    /\ script \in { "connect-counter", "connect-counter-single" }
    /\ pc = "s_main"
    /\ printed' = Append(printed, [msg |-> "Starting camera stats scraper"])
    /\ index' = 1
    /\ IF Len(urls) = 0
       THEN pc' = "finished"
       ELSE pc' = "s_launch"
    /\ UNCHANGED << files, urls, logFile, browser, waited, stats, clock, runs,
                    outputFile, mapVars, joinVars, metricVars, guiVars, df_locations >>

\* get_camera_stats: sync_playwright(), p.chromium.launch(), browser.new_page().
\* The three calls stand before the try: what they raise leaves the function
\* and, uncaught in the main block, ends the script with a traceback
Launch ==
    /\ script \in { "connect-counter", "connect-counter-single" }
    /\ pc = "s_launch"
    /\ \E launched \in BOOLEAN :
         IF launched
         THEN /\ browser' = "open"
              /\ printed' = Append(printed, [msg |-> "Scraping", url |-> urls[index]])
              /\ pc' = "s_goto"
         ELSE /\ browser' = "none"
              /\ printed' = Append(printed, [msg |-> "Traceback", url |-> urls[index]])
              /\ pc' = "crashed"
    /\ waited' = 0
    /\ UNCHANGED << files, urls, logFile, index, stats, clock, runs,
                    outputFile, mapVars, joinVars, metricVars, guiVars, df_locations >>

\* the except branch: browser.close(), print, return None, None
ScrapeFailed(e) ==
    /\ browser' = "closed"
    /\ printed' = Append(printed, [msg |-> "An error occurred while scraping",
                                    url |-> urls[index], error |-> e])
    /\ stats' = << None, None >>
    /\ waited' = 0
    /\ pc' = "s_log"

\* page.goto(url, timeout=60000) returns or raises before the timeout
Goto ==
    /\ script \in { "connect-counter", "connect-counter-single" }
    /\ pc = "s_goto"
    /\ waited < goto_timeout
    /\ \E loaded \in BOOLEAN :
         IF loaded
         THEN /\ pc' = "s_selector"
              /\ waited' = 0
              /\ UNCHANGED << browser, printed, stats >>
         ELSE ScrapeFailed("net::ERR_NAME_NOT_RESOLVED")
    /\ UNCHANGED << files, urls, logFile, index, clock, runs,
                    outputFile, mapVars, joinVars, metricVars, guiVars, df_locations >>

\* page.wait_for_selector('p:text("Registered Cameras")', timeout=30000) finds
\* the element
Selector ==
    /\ script \in { "connect-counter", "connect-counter-single" }
    /\ pc = "s_selector"
    /\ waited < selector_timeout
    /\ pc' = "s_animation"
    /\ waited' = 0
    /\ UNCHANGED << files, urls, logFile, browser, index, stats, clock, runs, printed,
                    outputFile, mapVars, joinVars, metricVars, guiVars, df_locations >>

\* page.goto or page.wait_for_selector raises TimeoutError
WaitTimedOut ==
    /\ script \in { "connect-counter", "connect-counter-single" }
    /\ pc \in { "s_goto", "s_selector" }
    /\ TimedOut(pc, waited)
    /\ ScrapeFailed("Timeout exceeded.")
    /\ UNCHANGED << files, urls, logFile, index, clock, runs,
                    outputFile, mapVars, joinVars, metricVars, guiVars, df_locations >>

\* page.wait_for_timeout(5000) returns, then the two inner_text() calls,
\* browser.close() and the return of the pair; a locator that finds no
\* preceding sibling raises
Scrape ==
    /\ script \in { "connect-counter", "connect-counter-single" }
    /\ pc = "s_animation"
    /\ TimedOut(pc, waited)
    /\ \/ \E registered_cameras \in CounterTexts, integrated_cameras \in CounterTexts :
            /\ browser' = "closed"
            /\ stats' = << << registered_cameras >>, << integrated_cameras >> >>
            /\ waited' = 0
            /\ pc' = "s_log"
            /\ UNCHANGED printed
       \/ ScrapeFailed("Timeout 30000ms exceeded.")
    /\ UNCHANGED << files, urls, logFile, index, clock, runs,
                    outputFile, mapVars, joinVars, metricVars, guiVars, df_locations >>

\* the body of the loop after get_camera_stats returned, and the step of the
\* loop: print("Scraping run finished.") after the last URL
Main_Log ==
    /\ script \in { "connect-counter", "connect-counter-single" }
    /\ pc = "s_log"
    /\ clock' = clock + 1
    /\ LET target_url == urls[index]
           registered_count == stats[1]
           integrated_count == stats[2]
           now == strftime(clock')
       IN  IF truthy(registered_count) /\ truthy(integrated_count)
           THEN /\ logFile' = log_to_csv(logFile, now, target_url,
                                         registered_count[1], integrated_count[1])
                /\ printed' = Append(printed, [msg |-> "Successfully logged data", url |-> target_url])
           ELSE /\ logFile' = log_to_csv(logFile, now, target_url, "Error", "Error")
                /\ printed' = Append(printed, [msg |-> "Failed to log data", url |-> target_url])
    /\ index' = index + 1
    /\ IF index' > Len(urls)
       THEN pc' = "finished"
       ELSE pc' = "s_launch"
    /\ UNCHANGED << files, urls, browser, waited, stats, runs,
                    outputFile, mapVars, joinVars, metricVars, guiVars, df_locations >>

\* the script is started again (it is written for cron): LOG_FILE is what the
\* earlier runs left
Invoke ==
    /\ script \in { "connect-counter", "connect-counter-single" }
    /\ pc \in { "finished", "crashed" }
    /\ runs < MaxRuns
    /\ runs' = runs + 1
    /\ pc' = "s_main"
    /\ printed' = << >>
    /\ browser' = "none"
    /\ index' = 0
    /\ stats' = << >>
    /\ waited' = 0
    /\ UNCHANGED << files, urls, logFile, clock,
                    outputFile, mapVars, joinVars, metricVars, guiVars, df_locations >>

InitScraper ==
    /\ \/ /\ script = "connect-counter"
          /\ urls \in SeqsUpTo(Range(URLS_TO_SCRAPE), MaxUrls)
       \/ /\ script = "connect-counter-single"
          /\ urls = << URL >>
    /\ pc = "s_main"
    /\ logFile = NoFile
    /\ browser = "none"
    /\ waited = 0
    /\ index = 0
    /\ stats = << >>
    /\ clock = 0
    /\ runs = 1
    /\ results_data = << >>
    /\ start_button = "disabled"
    /\ save_button = "disabled"
    /\ threads = << >>
    /\ after_queue = << >>
    /\ dialog = << >>
    /\ df_locations = NoFrame
    /\ censusFile = NoFile
    /\ cameraFile = NoFile
    /\ tractsFile = NoFile
    /\ dp03File = NoFile
    /\ dp05File = NoFile
    /\ geojsonFile = NoFile
    /\ outputFile = NoFile
    /\ printed = << >>
    /\ income_df = NoFrame
    /\ camera_gdf = NoFrame
    /\ tracts_gdf = NoFrame
    /\ joined_gdf = NoFrame
    /\ camera_counts_per_tract = NoFrame
    /\ final_gdf = NoFrame
    /\ df_dp03 = NoFrame
    /\ df_dp05 = NoFrame
    /\ merged_df = NoFrame
    /\ gdf = NoFrame
    /\ extra_vars_df = NoFrame
    /\ analysis_gdf = NoFrame
    /\ analysis_gdf_clean = NoFrame
    /\ income_data = NoFrame
    /\ poverty_data = NoFrame
    /\ bracket_analysis = NoFrame

NextScraper ==
    \/ Main_Start
    \/ Launch
    \/ TimePasses
    \/ Goto
    \/ Selector
    \/ WaitTimedOut
    \/ Scrape
    \/ Main_Log
    \/ Invoke

SpecScraper == InitScraper /\ [][NextScraper]_vars

-----------------------------------------------------------------------------
(* connect-counter/app.py: ScraperApp.  The main thread runs the Tk event   *)
(* loop: it takes one event at a time (a click, a callback of root.after),  *)
(* runs its handler to the end, and while a handler shows a modal dialog it *)
(* runs callbacks but delivers no click to the window.  A line of url_text  *)
(* is a sequence of pieces, " " for white space and a word otherwise.       *)

\* str.strip() of a line
RECURSIVE lstrip(_)
lstrip(line) ==
    IF line # << >> /\ Head(line) = " " THEN lstrip(Tail(line)) ELSE line

RECURSIVE rstrip(_)
rstrip(line) ==
    IF line # << >> /\ line[Len(line)] = " "
    THEN rstrip(SubSeq(line, 1, Len(line) - 1))
    ELSE line

strip(line) == rstrip(lstrip(line))

\* [url.strip() for url in urls if url.strip()]
RECURSIVE stripped_urls(_)
stripped_urls(lines) ==
    IF lines = << >> THEN << >>
    ELSE IF strip(Head(lines)) # << >>
         THEN << strip(Head(lines)) >> \o stripped_urls(Tail(lines))
         ELSE stripped_urls(Tail(lines))

\* what the user may have left in url_text, as its lines
UrlTexts ==
    { << << >> >>,
      << << " " >>, << >> >>,
      << << "https://connectchicopee.org/" >> >>,
      << << " ", "https://connectchicopee.org/" >>, << >>, << "https://connectholyoke.org/", " " >> >> }

\* mutant: the Start button stays enabled during a run
ButtonsLeftEnabled == [ start_button |-> "normal", save_button |-> "disabled" ]

\* the states start_scraping_thread gives the two buttons
ButtonsWhileScraping == [ start_button |-> "disabled", save_button |-> "disabled" ]

\* self.log(message): root.after(0, append_message)
log(queue, message) == Append(queue, [ callback |-> "append_message", message |-> message ])

RECURSIVE log_all(_, _)
log_all(queue, messages) ==
    IF messages = << >> THEN queue
    ELSE log_all(log(queue, Head(messages)), Tail(messages))

\* the ways one call of get_camera_stats(url, update_callback) can go: what it
\* hands to update_callback, and what it returns.  Everything it raises,
\* the launch included, is caught inside it
Outcomes ==
    { [ messages |-> << "Launching browser", "An error occurred" >>,
        stats |-> << None, None >> ],
      [ messages |-> << "Launching browser", "Navigating to page", "An error occurred" >>,
        stats |-> << None, None >> ],
      [ messages |-> << "Launching browser", "Navigating to page", "Page loaded",
                        "Elements found", "Scraping data", "Browser closed" >>,
        stats |-> << << "128" >>, << "" >> >> ] }

\* a click on "Start Scraping": start_scraping_thread
start_scraping_thread ==
    /\ script = "app"
    /\ dialog = << >>
    /\ start_button = "normal"
    /\ runs < MaxRuns
    /\ \E text \in UrlTexts :
         LET gui_urls == stripped_urls(text)
         IN  IF gui_urls = << >>
             THEN /\ dialog' = << "showerror: Please enter at least one URL." >>
                  /\ UNCHANGED << start_button, save_button, results_data, threads, runs >>
             ELSE /\ start_button' = ButtonsWhileScraping.start_button
                  /\ save_button' = ButtonsWhileScraping.save_button
                  /\ results_data' = << >>
                  /\ threads' = Append(threads, [ urls |-> gui_urls, position |-> "start",
                                                   index |-> 1, stats |-> << >>,
                                                   alive |-> TRUE ])
                  /\ runs' = runs + 1
                  /\ UNCHANGED dialog
    /\ UNCHANGED << files, pc, urls, logFile, browser, waited, index, stats, clock, printed,
                    after_queue, outputFile, mapVars, joinVars, metricVars, df_locations >>

\* run_scraping_logic, up to the loop
Worker_Begin(t) ==
    /\ threads[t].alive
    /\ threads[t].position = "start"
    /\ after_queue' = log(after_queue, "--- Starting scraping process ---")
    /\ threads' = [ threads EXCEPT ![t].position = "scrape" ]
    /\ UNCHANGED << results_data, clock >>

\* the loop body up to the return of get_camera_stats
Worker_Scrape(t) ==
    /\ threads[t].alive
    /\ threads[t].position = "scrape"
    /\ \E outcome \in Outcomes :
         /\ after_queue' = log_all(log(after_queue, "[BEGIN] Processing"), outcome.messages)
         /\ threads' = [ threads EXCEPT ![t].position = "append", ![t].stats = outcome.stats ]
    /\ UNCHANGED << results_data, clock >>

\* the rest of the loop body: the row appended to self.results_data
Worker_Append(t) ==
    /\ threads[t].alive
    /\ threads[t].position = "append"
    /\ clock' = clock + 1
    /\ LET url == threads[t].urls[threads[t].index]
           registered_count == threads[t].stats[1]
           integrated_count == threads[t].stats[2]
           now == strftime(clock')
       IN  IF registered_count # None /\ integrated_count # None
           THEN /\ after_queue' = log(after_queue, "[SUCCESS] Logged")
                /\ results_data' = Append(results_data,
                       [ Timestamp |-> now, URL |-> url,
                         Registered |-> registered_count[1],
                         Integrated |-> integrated_count[1] ])
           ELSE /\ after_queue' = log(after_queue, "[ERROR] Failed to retrieve stats")
                /\ results_data' = Append(results_data,
                       [ Timestamp |-> now, URL |-> url,
                         Registered |-> "Error", Integrated |-> "Error" ])
    /\ threads' = [ threads EXCEPT
                      ![t].index = @ + 1,
                      ![t].position = IF threads[t].index + 1 > Len(threads[t].urls)
                                      THEN "finish" ELSE "scrape" ]

\* after the loop: the last message, root.after(0, self.scraping_complete),
\* and the end of the thread
Worker_Finish(t) ==
    /\ threads[t].alive
    /\ threads[t].position = "finish"
    /\ after_queue' = Append(log(after_queue, "--- Scraping finished ---"),
                             [ callback |-> "scraping_complete" ])
    /\ threads' = [ threads EXCEPT ![t].alive = FALSE, ![t].position = "returned" ]
    /\ UNCHANGED << results_data, clock >>

\* a step of a worker thread
Worker ==
    /\ script = "app"
    /\ \E t \in 1..Len(threads) :
         \/ Worker_Begin(t)
         \/ Worker_Scrape(t)
         \/ Worker_Append(t)
         \/ Worker_Finish(t)
    /\ UNCHANGED << files, pc, urls, logFile, browser, waited, index, stats, runs, printed,
                    start_button, save_button, dialog, outputFile, mapVars, joinVars,
                    metricVars, df_locations >>

\* the event loop runs the oldest callback of root.after: append_message of
\* log, or scraping_complete
RunCallback ==
    /\ script = "app"
    /\ after_queue # << >>
    /\ after_queue' = Tail(after_queue)
    /\ IF Head(after_queue).callback = "append_message"
       THEN /\ printed' = Append(printed, [msg |-> Head(after_queue).message])
            /\ UNCHANGED << start_button, save_button, dialog >>
       ELSE /\ start_button' = "normal"
            /\ save_button' = IF results_data # << >> THEN "normal" ELSE save_button
            /\ dialog' = Append(dialog, "showinfo: Scraping process has finished.")
            /\ UNCHANGED printed
    /\ UNCHANGED << files, pc, urls, logFile, browser, waited, index, stats, clock, runs,
                    results_data, threads, outputFile, mapVars, joinVars, metricVars,
                    df_locations >>

\* a click on "Save Log as CSV": save_log opens the file dialog
save_log ==
    /\ script = "app"
    /\ dialog = << >>
    /\ save_button = "normal"
    /\ dialog' = << "asksaveasfilename" >>
    /\ UNCHANGED << files, pc, urls, logFile, browser, waited, index, stats, clock, runs, printed,
                    results_data, start_button, save_button, threads, after_queue,
                    outputFile, mapVars, joinVars, metricVars, df_locations >>

\* write_log_to_csv(filepath, data_to_log): mode 'w', the header, the rows
write_log_to_csv(data_to_log) == << fieldnames >> \o data_to_log

\* the file dialog returns: cancelled, or a path and the write, which may
\* raise IOError; nothing is written for an empty list
save_log_write ==
    /\ script = "app"
    /\ dialog # << >>
    /\ dialog[Len(dialog)] = "asksaveasfilename"
    /\ \E filepath \in { "", "log.csv" }, writable \in BOOLEAN :
         IF filepath = ""
         THEN /\ dialog' = SubSeq(dialog, 1, Len(dialog) - 1)
              /\ UNCHANGED outputFile
         ELSE IF results_data = << >> \/ ~ writable
         THEN /\ dialog' = [ dialog EXCEPT ![Len(dialog)] = "showerror: Failed to save log file" ]
              /\ UNCHANGED outputFile
         ELSE /\ outputFile' = write_log_to_csv(results_data)
              /\ dialog' = [ dialog EXCEPT ![Len(dialog)] = "showinfo: Log successfully saved" ]
    /\ UNCHANGED << files, pc, urls, logFile, browser, waited, index, stats, clock, runs, printed,
                    results_data, start_button, save_button, threads, after_queue,
                    mapVars, joinVars, metricVars, df_locations >>

\* the user closes the message box on top
Dismiss ==
    /\ script = "app"
    /\ dialog # << >>
    /\ dialog[Len(dialog)] # "asksaveasfilename"
    /\ dialog' = SubSeq(dialog, 1, Len(dialog) - 1)
    /\ UNCHANGED << files, pc, urls, logFile, browser, waited, index, stats, clock, runs, printed,
                    results_data, start_button, save_button, threads, after_queue,
                    outputFile, mapVars, joinVars, metricVars, df_locations >>

\* ScraperApp.__init__ and root.mainloop()
InitGui ==
    /\ script = "app"
    /\ pc = "mainloop"
    /\ results_data = << >>
    /\ start_button = "normal"
    /\ save_button = "disabled"
    /\ threads = << >>
    /\ after_queue = << >>
    /\ dialog = << >>
    /\ urls = << >>
    /\ logFile = NoFile
    /\ browser = "none"
    /\ waited = 0
    /\ index = 0
    /\ stats = << >>
    /\ clock = 0
    /\ runs = 0
    /\ df_locations = NoFrame
    /\ censusFile = NoFile
    /\ cameraFile = NoFile
    /\ tractsFile = NoFile
    /\ dp03File = NoFile
    /\ dp05File = NoFile
    /\ geojsonFile = NoFile
    /\ outputFile = NoFile
    /\ printed = << >>
    /\ income_df = NoFrame
    /\ camera_gdf = NoFrame
    /\ tracts_gdf = NoFrame
    /\ joined_gdf = NoFrame
    /\ camera_counts_per_tract = NoFrame
    /\ final_gdf = NoFrame
    /\ df_dp03 = NoFrame
    /\ df_dp05 = NoFrame
    /\ merged_df = NoFrame
    /\ gdf = NoFrame
    /\ extra_vars_df = NoFrame
    /\ analysis_gdf = NoFrame
    /\ analysis_gdf_clean = NoFrame
    /\ income_data = NoFrame
    /\ poverty_data = NoFrame
    /\ bracket_analysis = NoFrame

NextGui ==
    \/ start_scraping_thread
    \/ Worker
    \/ RunCallback
    \/ save_log
    \/ save_log_write
    \/ Dismiss

SpecGui == InitGui /\ [][NextGui]_vars

-----------------------------------------------------------------------------
(* geocode/geocode_earth.py: clean_address.  An address is a sequence of    *)
(* tokens: a white-space character " ", one of , ( ) : & or a whole word.   *)

IsWord(token) == token \notin { " ", ",", "(", ")", ":", "&" }

\* the street types of the intersection pattern
StreetTypes ==
    { "St", "Street", "Ave", "Avenue", "Rd", "Road", "Dr", "Drive", "Ln", "Lane", "Blvd",
      "Boulevard", "Pkwy", "Parkway", "Ct", "Court", "Pl", "Place", "Pond", "Center" }

\* \s* from position i: the first position at or after i that holds no space
RECURSIVE SkipSpaces(_, _)
SkipSpaces(text, i) ==
    IF i <= Len(text) /\ text[i] = " " THEN SkipSpaces(text, i + 1) ELSE i

\* \b\w+[\w\s]*? (?:St|Street|...) matches the tokens a..b
StreetAt(text, a, b) ==
    /\ a >= 1
    /\ b <= Len(text)
    /\ b >= a + 2
    /\ text[b] \in StreetTypes
    /\ text[b - 1] = " "
    /\ IsWord(text[a])
    /\ \A k \in a..(b - 2) : IsWord(text[k]) \/ text[k] = " "

\* \s*(?:&|and)\s* after position b: the position where the second street
\* begins, 0 when no "&" or "and" follows
SecondStreet(text, b) ==
    LET connector == SkipSpaces(text, b + 1)
    IN  IF connector <= Len(text) /\ text[connector] \in { "&", "and" }
        THEN SkipSpaces(text, connector + 1)
        ELSE 0

\* the matches of the whole pattern: street, "&" or "and", street
IntersectionMatches(text) ==
    UNION { UNION { { << a, b, SecondStreet(text, b), d >> :
                        d \in { e \in 1..Len(text) : StreetAt(text, SecondStreet(text, b), e) } } :
                    b \in { e \in 1..Len(text) :
                              StreetAt(text, a, e) /\ SecondStreet(text, e) # 0 } } :
            a \in { e \in 1..Len(text) : IsWord(text[e]) } }

\* re.search: the leftmost match, each lazy group as short as it can be
intersection_match(text) ==
    CHOOSE m \in IntersectionMatches(text) :
        \A n \in IntersectionMatches(text) :
            \/ m[1] < n[1]
            \/ (m[1] = n[1] /\ m[2] < n[2])
            \/ (m[1] = n[1] /\ m[2] = n[2] /\ m[4] <= n[4])

\* (?:,\s*(.*))? after the match
remaining_address(text, m) ==
    IF m[4] + 1 <= Len(text) /\ text[m[4] + 1] = ","
    THEN SubSeq(text, SkipSpaces(text, m[4] + 2), Len(text))
    ELSE << >>

\* re.sub(r"^[Ii]ntersection of\s*", "", cleaned)
strip_intersection_of(text) ==
    IF Len(text) >= 3 /\ text[1] \in { "Intersection", "intersection" } /\
       text[2] = " " /\ text[3] = "of"
    THEN SubSeq(text, SkipSpaces(text, 4), Len(text))
    ELSE text

\* the descriptive prefixes of the general cleaning
Prefixes ==
    { << "Main", " ", "Library" >>, << "Parking" >>, << "Access" >>, << "Spans" >>, << "near" >>,
      << "Pumping", " ", "Station" >>,
      << "Area", " ", "around", " ", "Chicopee", " ", "City", " ", "Hall" >>,
      << "Chicopee", " ", "Comp.", " ", "High" >>,
      << "Chicopee", " ", "Water", " ", "Pollution", " ", "Control", " ", "Facility" >>,
      << "Connecticut", " ", "Riverwalk", " ", "&", " ", "Bikeway" >>,
      << "River", " ", "Mills", " ", "Assisted", " ", "Living" >> }

\* re.sub(r"^(Main Library|Parking|...):?\s*", "", cleaned)
strip_prefix(text) ==
    LET found == { p \in Prefixes : Len(p) <= Len(text) /\ SubSeq(text, 1, Len(p)) = p }
    IN  IF found = { } THEN text
        ELSE LET p == CHOOSE q \in found : TRUE
                 after == IF Len(p) + 1 <= Len(text) /\ text[Len(p) + 1] = ":"
                          THEN Len(p) + 2 ELSE Len(p) + 1
             IN  SubSeq(text, SkipSpaces(text, after), Len(text))

\* the position of the first ")" at or after i, 0 when there is none
RECURSIVE Closing(_, _)
Closing(text, i) ==
    IF i > Len(text) THEN 0
    ELSE IF text[i] = ")" THEN i
    ELSE Closing(text, i + 1)

\* re.sub(r"\s*\([^)]*\)\s*", " ", cleaned): every note in parentheses, with
\* the white space around it, becomes one space
RECURSIVE strip_parentheses(_)
strip_parentheses(text) ==
    IF text = << >> THEN << >>
    ELSE LET open == SkipSpaces(text, 1)
         IN  IF open <= Len(text) /\ text[open] = "(" /\ Closing(text, open) # 0
             THEN << " " >> \o
                  strip_parentheses(SubSeq(text, SkipSpaces(text, Closing(text, open) + 1),
                                           Len(text)))
             ELSE << Head(text) >> \o strip_parentheses(Tail(text))

\* the street abbreviations and what replaces them
replacement(token) ==
    CASE token = "St" -> "Street"
      [] token = "Ave" -> "Avenue"
      [] token = "Rd" -> "Road"
      [] token = "Dr" -> "Drive"
      [] token = "Ln" -> "Lane"
      [] token = "Blvd" -> "Boulevard"
      [] token = "Pkwy" -> "Parkway"
      [] token = "Ct" -> "Court"
      [] token = "Pl" -> "Place"
      [] OTHER -> token

\* re.sub(r"\s+", " ", cleaned)
RECURSIVE collapse(_)
collapse(text) ==
    IF text = << >> THEN << >>
    ELSE IF Head(text) = " "
         THEN << " " >> \o collapse(SubSeq(text, SkipSpaces(text, 1), Len(text)))
         ELSE << Head(text) >> \o collapse(Tail(text))

\* str.strip(',')
RECURSIVE strip_commas(_)
strip_commas(text) ==
    IF text # << >> /\ Head(text) = "," THEN strip_commas(Tail(text))
    ELSE IF text # << >> /\ text[Len(text)] = ","
         THEN strip_commas(SubSeq(text, 1, Len(text) - 1))
         ELSE text

\* clean_address(address): None for a missing, blank or uncleanable address
clean_address(address) ==
    IF address = NaN \/ strip(address) = << >> THEN None
    ELSE LET stripped == strip(address)
             first ==
                 IF IntersectionMatches(stripped) # { }
                 THEN LET m == intersection_match(stripped)
                          street1 == strip(SubSeq(stripped, m[1], m[2]))
                          street2 == strip(SubSeq(stripped, m[3], m[4]))
                          rest == remaining_address(stripped, m)
                          joined == street1 \o << " ", "&", " " >> \o street2 \o
                                    (IF rest # << >> THEN << ",", " " >> \o strip(rest)
                                     ELSE << >>)
                      IN  strip(strip_intersection_of(joined))
                 ELSE strip(strip_parentheses(strip(strip_prefix(stripped))))
             standard == [ k \in 1..Len(first) |-> replacement(first[k]) ]
         IN  strip_commas(strip(collapse(standard)))

-----------------------------------------------------------------------------
(* geocode/geocode_earth.py: geocode_address and main.  What requests.get   *)
(* meets is a record: the exception it raises ("" for none), the status     *)
(* code, whether the body parses as JSON, and the parsed value, a dict.     *)

MaxLocations == 2

ADDRESS_COLUMN_NAME == "Address"

EmptyDict == [ name \in { } |-> None ]

Answer(data) == [ error |-> "", status_code |-> 200, decodable |-> TRUE, data |-> data ]

GeoFeature(coordinates) == [ type |-> "Feature", geometry |-> [ coordinates |-> coordinates ] ]

\* a position is [longitude, latitude]; JSON null is None
Responses ==
    { [ error |-> "ConnectionError", status_code |-> 0, decodable |-> FALSE, data |-> EmptyDict ],
      [ error |-> "", status_code |-> 500, decodable |-> FALSE, data |-> EmptyDict ],
      [ error |-> "", status_code |-> 200, decodable |-> FALSE, data |-> EmptyDict ],
      Answer(EmptyDict),
      Answer([ features |-> << >> ]),
      Answer([ features |-> << [ type |-> "Feature" ] >> ]),
      Answer([ features |-> << GeoFeature(<< << 0 - 72 >>, << 42 >> >>) >> ]),
      Answer([ features |-> << GeoFeature(<< << 0 - 72 >>, << 42 >>, << 60 >> >>) >> ]),
      Answer([ features |-> << GeoFeature(<< << 0 - 72 >>, None >>) >> ]) }

\* dict.get(key, default)
get(dict, name, default) == IF name \in DOMAIN dict THEN dict[name] ELSE default

\* geocode_address(address, ...): the pair (latitude, longitude) it returns
\* and the line it prints, given what the request met
geocode_address(address, response) ==
    IF address = None
    THEN [ pair |-> << None, None >>, message |-> << >> ]
    ELSE IF response.error # ""
    THEN [ pair |-> << None, None >>, message |-> << [msg |-> "ERROR: Request failed"] >> ]
    ELSE IF response.status_code >= 400
    THEN [ pair |-> << None, None >>, message |-> << [msg |-> "ERROR: HTTP error"] >> ]
    ELSE IF ~ response.decodable
    THEN [ pair |-> << None, None >>, message |-> << [msg |-> "ERROR: Request failed"] >> ]
    ELSE LET data == response.data
         IN  IF DOMAIN data # { } /\ "features" \in DOMAIN data /\ Len(data.features) > 0
             THEN LET first_feature == data.features[1]
                      coordinates == get(get(first_feature, "geometry", EmptyDict),
                                         "coordinates", None)
                  IN  IF coordinates # None /\ Len(coordinates) = 2
                      THEN [ pair |-> << coordinates[2], coordinates[1] >>, message |-> << >> ]
                      ELSE [ pair |-> << None, None >>,
                             message |-> << [msg |-> "DEBUG: No coordinates found in feature"] >> ]
             ELSE [ pair |-> << None, None >>,
                    message |-> << [msg |-> "DEBUG: No geocoding results found"] >> ]

\* main, up to the loop: the three checks of the input file, then the new
\* columns.  cameraFile is INPUT_CSV_PATH
Geo_Load ==
    /\ script = "geocode_earth"
    /\ pc = "g_main"
    /\ IF cameraFile = NoFile
       THEN /\ printed' = Append(printed, [msg |-> "Error: Input CSV file not found"])
            /\ pc' = "finished"
            /\ UNCHANGED << df_locations, index >>
       ELSE IF ~ cameraFile.readable
       THEN /\ printed' = Append(printed, [msg |-> "Error reading CSV file"])
            /\ pc' = "finished"
            /\ UNCHANGED << df_locations, index >>
       ELSE IF ADDRESS_COLUMN_NAME \notin cameraFile.columns
       THEN /\ printed' = Append(printed, [msg |-> "Error: Address column not found in the CSV."])
            /\ pc' = "finished"
            /\ UNCHANGED << df_locations, index >>
       ELSE /\ df_locations' =
                  [ k \in 1..Len(cameraFile.rows) |->
                      [ Address |-> cameraFile.rows[k].Address,
                        Cleaned_Address |-> None,
                        Latitude |-> None,
                        Longitude |-> None,
                        Geocoding_Status |-> "Pending" ] ]
            /\ printed' = Append(printed, [msg |-> "Found addresses to process",
                                           total_addresses |-> Len(cameraFile.rows)])
            /\ index' = 1
            /\ pc' = IF Len(cameraFile.rows) = 0 THEN "g_save" ELSE "g_clean"
    /\ UNCHANGED << files, urls, logFile, browser, waited, stats, clock, runs, guiVars,
                    outputFile, mapVars, joinVars, metricVars >>

\* the end of the loop body: status, coordinates, the progress line,
\* time.sleep(1), and the step to the next row
FinishRow(frame, status, lat, lon, messages) ==
    /\ df_locations' = [ frame EXCEPT ![index].Geocoding_Status = status,
                                      ![index].Latitude = lat,
                                      ![index].Longitude = lon ]
    /\ printed' = printed \o messages \o
                  << [msg |-> "Processed", row |-> index, Lat |-> lat, Lon |-> lon] >>
    /\ index' = index + 1
    /\ waited' = 0
    /\ pc' = IF index + 1 > Len(frame) THEN "g_save" ELSE "g_clean"

\* the addresses of the input file
AddressPool ==
    { NaN,
      << " " >>,
      << "(", "rear", ")" >>,
      << "12", " ", "Main", " ", "St" >>,
      << "Parking", ":", " ", "5", " ", "Elm", " ", "Rd", " ", "(", "lot", ")" >>,
      << "Main", " ", "St", " ", "and", " ", "Elm", " ", "Ave", ",", " ", "Chicopee" >> }

\* clean_address on the addresses of the input files, computed once
cleaned_addresses == [ address \in AddressPool |-> clean_address(address) ]

\* the loop body up to the request: clean_address, and the whole body for a
\* row that has nothing to send
Geo_Clean ==
    /\ script = "geocode_earth"
    /\ pc = "g_clean"
    /\ LET original_address == df_locations[index].Address
           cleaned_address == cleaned_addresses[original_address]
           cleaned == [ df_locations EXCEPT ![index].Cleaned_Address = cleaned_address ]
       IN  IF cleaned_address # None
           THEN /\ df_locations' = cleaned
                /\ pc' = "g_request"
                /\ waited' = 0
                /\ UNCHANGED << printed, index >>
           ELSE FinishRow(cleaned, "Skipped (Empty/Uncleanable)", None, None, << >>)
    /\ UNCHANGED << files, urls, logFile, browser, stats, clock, runs, guiVars,
                    outputFile, mapVars, joinVars, metricVars >>

\* requests.get(GEOCODING_URL, params=params, timeout=20) returns or raises
\* before the timeout, and the rest of the loop body
Geo_Request ==
    /\ script = "geocode_earth"
    /\ pc = "g_request"
    /\ waited < WaitLimit(pc)
    /\ \E response \in Responses :
         LET returned == geocode_address(df_locations[index].Cleaned_Address, response)
             lat == returned.pair[1]
             lon == returned.pair[2]
         IN  FinishRow(df_locations, IF lat # None THEN "Success" ELSE "Failed",
                       lat, lon, returned.message)
    /\ UNCHANGED << files, urls, logFile, browser, stats, clock, runs, guiVars,
                    outputFile, mapVars, joinVars, metricVars >>

\* requests.get raises Timeout, a RequestException
Geo_TimedOut ==
    /\ script = "geocode_earth"
    /\ pc = "g_request"
    /\ TimedOut(pc, waited)
    /\ FinishRow(df_locations, "Failed", None, None, << [msg |-> "ERROR: Request timed out"] >>)
    /\ UNCHANGED << files, urls, logFile, browser, stats, clock, runs, guiVars,
                    outputFile, mapVars, joinVars, metricVars >>

\* df.to_csv(OUTPUT_CSV_PATH, index=False, encoding='utf-8')
Geo_Save ==
    /\ script = "geocode_earth"
    /\ pc = "g_save"
    /\ \E saved \in BOOLEAN :
         IF saved
         THEN /\ outputFile' = [ written |-> TRUE, rows |-> df_locations ]
              /\ printed' = Append(printed, [msg |-> "Geocoding complete! Results saved"])
         ELSE /\ printed' = Append(printed, [msg |-> "Error saving output CSV"])
              /\ UNCHANGED outputFile
    /\ pc' = "finished"
    /\ UNCHANGED << files, scrapeVars, guiVars, df_locations, mapVars, joinVars, metricVars >>

LocationFiles ==
    { NoFile,
      [ readable |-> FALSE, columns |-> { }, rows |-> << >> ],
      [ readable |-> TRUE, columns |-> { "Name" }, rows |-> << [ Name |-> << "City", " ", "Hall" >> ] >> ] }
    \cup
    { [ readable |-> TRUE, columns |-> { ADDRESS_COLUMN_NAME },
        rows |-> [ k \in 1..Len(cells) |-> [ Address |-> cells[k] ] ] ] :
        cells \in SeqsUpTo(AddressPool, MaxLocations) }

InitGeocode ==
    /\ script = "geocode_earth"
    /\ pc = "g_main"
    /\ cameraFile \in LocationFiles
    /\ df_locations = NoFrame
    /\ urls = << >>
    /\ logFile = NoFile
    /\ browser = "none"
    /\ waited = 0
    /\ index = 0
    /\ stats = << >>
    /\ clock = 0
    /\ runs = 1
    /\ results_data = << >>
    /\ start_button = "disabled"
    /\ save_button = "disabled"
    /\ threads = << >>
    /\ after_queue = << >>
    /\ dialog = << >>
    /\ censusFile = NoFile
    /\ tractsFile = NoFile
    /\ dp03File = NoFile
    /\ dp05File = NoFile
    /\ geojsonFile = NoFile
    /\ outputFile = NoFile
    /\ printed = << >>
    /\ income_df = NoFrame
    /\ camera_gdf = NoFrame
    /\ tracts_gdf = NoFrame
    /\ joined_gdf = NoFrame
    /\ camera_counts_per_tract = NoFrame
    /\ final_gdf = NoFrame
    /\ df_dp03 = NoFrame
    /\ df_dp05 = NoFrame
    /\ merged_df = NoFrame
    /\ gdf = NoFrame
    /\ extra_vars_df = NoFrame
    /\ analysis_gdf = NoFrame
    /\ analysis_gdf_clean = NoFrame
    /\ income_data = NoFrame
    /\ poverty_data = NoFrame
    /\ bracket_analysis = NoFrame

NextGeocode ==
    \/ Geo_Load
    \/ Geo_Clean
    \/ TimePasses
    \/ Geo_Request
    \/ Geo_TimedOut
    \/ Geo_Save

SpecGeocode == InitGeocode /\ [][NextGeocode]_vars

-----------------------------------------------------------------------------
(* The acquisition scripts with their scheduling: a script that can take a  *)
(* step takes one, and time does not stand still.  Whether and when a site  *)
(* or the geocoding service answers is left open.                           *)

InitAcquire == InitScraper \/ InitGeocode

NextAcquire == NextScraper \/ NextGeocode

\* the steps that need no answer from outside
Progress ==
    \/ Main_Start
    \/ Launch
    \/ TimePasses
    \/ WaitTimedOut
    \/ Scrape
    \/ Main_Log
    \/ Geo_Load
    \/ Geo_Clean
    \/ Geo_TimedOut
    \/ Geo_Save

SpecAcquireLive == InitAcquire /\ [][NextAcquire]_vars /\ WF_vars(Progress)

----------------------------------------------------------------------------
(* Properties of analyze_camera_distribution *)

Indices(s) == 1..Len(s)

RECURSIVE SumOver(_, _)
SumOver(S, f) ==
    IF S = {} THEN 0
    ELSE LET x == CHOOSE y \in S : TRUE IN f[x] + SumOver(S \ {x}, f)

Written == outputFile.written

CamerasPrepared == pc \in { "tracts", "sjoin", "aggregate", "merge", "save", "done" }

Joined == pc \in { "aggregate", "merge", "save", "done" }

\* the tracts (by position in the tract file) whose interior holds camera point i
Containing(i) == { t \in Indices(tracts_gdf) : camera_gdf[i].geometry \in tracts_gdf[t].geometry }

JoinedRowsOf(i) == { k \in Indices(joined_gdf) : joined_gdf[k].index = i }

\* C1: the enriched output holds exactly one record per input polygon, also when
\* two rows of the demographic table normalize to the same identifier.
C1_OneRecordPerPolygon ==
    Written =>
        /\ \A t \in Indices(tractsFile) :
             Cardinality({ i \in Indices(outputFile.features) :
                             outputFile.features[i].GEOID = tractsFile[t].GEOID }) = 1
        /\ \A i \in Indices(outputFile.features) :
             \E t \in Indices(tractsFile) : outputFile.features[i].GEOID = tractsFile[t].GEOID

\* C2: in the enriched output a polygon with no point-count match has count 0, and a
\* polygon with no demographic match has income 0, never the missing marker.
C2_ZeroFill ==
    Written =>
        \A i \in Indices(outputFile.features) :
            LET f == outputFile.features[i]
            IN  /\ f.TotalCameras # NaN
                /\ f.MedianHouseholdIncome # NaN
                /\ (\A k \in Indices(camera_counts_per_tract) :
                        camera_counts_per_tract[k].GEOID # f.GEOID)
                   => f.TotalCameras = <<0>>
                /\ (\A k \in Indices(income_df) : income_df[k].GEOID # f.GEOID)
                   => f.MedianHouseholdIncome = <<0>>

C2_Witness ==
    /\ Written
    /\ \E i, j \in Indices(outputFile.features) :
         /\ \A k \in Indices(camera_counts_per_tract) :
                camera_counts_per_tract[k].GEOID # outputFile.features[i].GEOID
         /\ outputFile.features[i].TotalCameras = <<0>>
         /\ income_df # <<>>
         /\ \A k \in Indices(income_df) : income_df[k].GEOID # outputFile.features[j].GEOID
         /\ outputFile.features[j].MedianHouseholdIncome = <<0>>
         /\ outputFile.features[j].TractName = NaN

\* the count of raw observation i of the camera file
RawCount(i) ==
    IF script = "flat" THEN 1
    ELSE LET props == cameraFile.features[i].properties
         IN  IF "log_stats" \in DOMAIN props /\ "cameras" \in DOMAIN props.log_stats
             THEN Len(props.log_stats.cameras) ELSE 1

RawItems == IF script = "flat" THEN Indices(cameraFile.rows) ELSE Indices(cameraFile.features)

AggregatedSum == SumOver(Indices(camera_gdf), [ i \in Indices(camera_gdf) |-> camera_gdf[i].num_cameras ])

\* C3: for both input shapes, rows without a latitude or longitude included, the sum
\* of the aggregated counts equals the sum of the raw observation counts.
C3_AggregationLosesNothing ==
    CamerasPrepared =>
        AggregatedSum = SumOver(RawItems, [ i \in RawItems |-> RawCount(i) ])

\* the nested camera list of structured item i, <<>> when it has none
NestedCameras(i) ==
    LET props == cameraFile.features[i].properties
    IN  IF "log_stats" \in DOMAIN props /\ "cameras" \in DOMAIN props.log_stats
        THEN props.log_stats.cameras ELSE <<>>

HasNestedList(i) ==
    LET props == cameraFile.features[i].properties
    IN  "log_stats" \in DOMAIN props /\ "cameras" \in DOMAIN props.log_stats

\* C4 as stated: the count of a structured item is the number of its nested cameras,
\* and 1 when the list is absent or present but empty.
C4_CountOrOneWhenEmpty ==
    (script = "structured" /\ CamerasPrepared) =>
        \A i \in Indices(cameraFile.features) :
            camera_gdf[i].num_cameras =
                IF Len(NestedCameras(i)) > 0 THEN Len(NestedCameras(i)) ELSE 1

\* C4 amended: the count of a structured item is the number of its nested cameras
\* whenever the list is present (0 for an empty list), and 1 only when it is absent.
C4_CountOrOneWhenAbsent ==
    (script = "structured" /\ CamerasPrepared) =>
        \A i \in Indices(cameraFile.features) :
            /\ HasNestedList(i) => camera_gdf[i].num_cameras = Len(NestedCameras(i))
            /\ ~HasNestedList(i) => camera_gdf[i].num_cameras = 1

C4_Witness ==
    /\ script = "structured"
    /\ CamerasPrepared
    /\ \E i, k \in Indices(cameraFile.features) :
         /\ HasNestedList(i) /\ NestedCameras(i) = <<>> /\ camera_gdf[i].num_cameras = 0
         /\ ~HasNestedList(k) /\ camera_gdf[k].num_cameras = 1

\* the raw rows of the flat file that carry exactly the pair (lat, lon)
RowsAt(lat, lon) ==
    { r \in Indices(cameraFile.rows) :
        cameraFile.rows[r].Latitude = <<lat>> /\ cameraFile.rows[r].Longitude = <<lon>> }

\* C5: in the flat shape the aggregated count of each distinct (latitude, longitude)
\* pair equals the number of raw rows carrying exactly that pair.
C5_CountIsNumberOfRows ==
    (script = "flat" /\ CamerasPrepared) =>
        /\ \A i \in Indices(camera_gdf) :
             camera_gdf[i].num_cameras =
                 Cardinality(RowsAt(camera_gdf[i].Latitude, camera_gdf[i].Longitude))
        /\ \A r \in Indices(cameraFile.rows) :
             LET row == cameraFile.rows[r]
             IN  (row.Latitude # NaN /\ row.Longitude # NaN) =>
                     \E i \in Indices(camera_gdf) :
                         /\ camera_gdf[i].Latitude = row.Latitude[1]
                         /\ camera_gdf[i].Longitude = row.Longitude[1]

C5_Witness ==
    /\ script = "flat"
    /\ CamerasPrepared
    /\ Len(cameraFile.rows) = 2
    /\ cameraFile.rows[1] = cameraFile.rows[2]
    /\ Len(camera_gdf) = 1
    /\ camera_gdf[1].num_cameras = 2

NoEqualCoordinates ==
    \A i, j \in Indices(camera_gdf) :
        camera_gdf[i].geometry = camera_gdf[j].geometry => i = j

CountsWithin(t) ==
    LET S == { i \in Indices(camera_gdf) : t \in Containing(i) }
    IN  SumOver(S, [ i \in S |-> camera_gdf[i].num_cameras ])

\* C7: a point strictly inside exactly one polygon adds its count to that polygon's
\* total and to no other, a point inside no polygon adds to none, and the run goes on.
C7_ContainmentJoin ==
    /\ Joined =>
         \A i \in Indices(camera_gdf) :
             /\ Cardinality(Containing(i)) = 1 =>
                    /\ Cardinality(JoinedRowsOf(i)) = 1
                    /\ \A k \in JoinedRowsOf(i) :
                           /\ joined_gdf[k].index_right \in Containing(i)
                           /\ joined_gdf[k].GEOID = tracts_gdf[joined_gdf[k].index_right].GEOID
                           /\ joined_gdf[k].num_cameras = camera_gdf[i].num_cameras
             /\ Containing(i) = {} => JoinedRowsOf(i) = {}
    /\ Written =>
         \A f \in Indices(outputFile.features) :
             \A t \in Indices(tracts_gdf) :
                 tracts_gdf[t].GEOID = outputFile.features[f].GEOID
                     => outputFile.features[f].TotalCameras = << CountsWithin(t) >>
    /\ pc = "failed" =>
         \A m \in Indices(printed) : printed[m].msg # "Census tracts loaded."

C7_Witness ==
    /\ Written
    /\ \E i, j \in Indices(camera_gdf) :
         /\ Cardinality(Containing(i)) = 1
         /\ camera_gdf[i].num_cameras = 2
         /\ Containing(j) = {}
         /\ \E f \in Indices(outputFile.features) :
              /\ tracts_gdf[CHOOSE t \in Containing(i) : TRUE].GEOID = outputFile.features[f].GEOID
              /\ outputFile.features[f].TotalCameras = <<2>>

\* C8: a point contained by more than one polygon is assigned to exactly one polygon,
\* the first containing polygon in the polygon set's order, and a data-quality warning
\* is printed.
C8_FirstMatchAndWarning ==
    Joined =>
        \A i \in Indices(camera_gdf) :
            Cardinality(Containing(i)) > 1 =>
                /\ Cardinality(JoinedRowsOf(i)) = 1
                /\ \A k \in JoinedRowsOf(i) :
                       \A t \in Containing(i) : joined_gdf[k].index_right <= t
                /\ \E m \in Indices(printed) : printed[m].msg = "warning"

----------------------------------------------------------------------------
(* Properties of join_census_data *)

\* the data rows of an input file: the lines below the description row
DataRows(file) == IF file.lines = <<>> THEN <<>> ELSE Tail(file.lines)

KeySet(rows) == { rows[n][key] : n \in Indices(rows) }

JoinWritten == script = "join" /\ outputFile.written

\* C9: the set of GEO_ID keys of the joined output is the intersection of the key
\* sets of the two input tables.
C9_KeysAreIntersection ==
    JoinWritten =>
        KeySet(outputFile.rows) = KeySet(DataRows(dp03File)) \cap KeySet(DataRows(dp05File))

C9_Witness ==
    /\ JoinWritten
    /\ \E k \in KeySet(DataRows(dp03File)) : k \notin KeySet(DataRows(dp05File))
    /\ \E k \in KeySet(DataRows(dp05File)) : k \notin KeySet(DataRows(dp03File))
    /\ KeySet(outputFile.rows) # {}

SharedColumns == (Range(dp03File.header) \cap Range(dp05File.header)) \ { key }

\* the cells of column c in the dp03 rows whose key is k
LeftCells(c, k) ==
    { DataRows(dp03File)[n][c] : n \in { m \in Indices(DataRows(dp03File)) :
                                            DataRows(dp03File)[m][key] = k } }

RightCells(c, k) ==
    { DataRows(dp05File)[n][c] : n \in { m \in Indices(DataRows(dp05File)) :
                                            DataRows(dp05File)[m][key] = k } }

Occurrences(columns, c) == Cardinality({ k \in Indices(columns) : columns[k] = c })

\* the output holds column c once, under its own name, with the left table's cells
KeptFromLeft(c) ==
    /\ Occurrences(outputFile.columns, c) = 1
    /\ Occurrences(outputFile.columns, c \o "_x") = 0
    /\ Occurrences(outputFile.columns, c \o "_y") = 0
    /\ \A n \in Indices(outputFile.rows) :
         outputFile.rows[n][c] \in LeftCells(c, outputFile.rows[n][key])

----------------------------------------------------------------------------
(* Properties of the identifier normalization *)

HasMarker(s) == \E p \in 1..(Len(s) - 1) : SubSeq(s, p, p + 1) = Marker

\* t is what follows an occurrence of the marker in s and holds no marker itself
AfterLastMarker(s, t) ==
    /\ \E p \in 1..(Len(s) - 1) : SubSeq(s, p, p + 1) = Marker /\ t = SubSeq(s, p + 2, Len(s))
    /\ ~ HasMarker(t)

NormalizedAt(frame) ==
    frame # NoFrame =>
        /\ Len(frame) = Len(censusFile)
        /\ \A i \in Indices(frame) :
              HasMarker(censusFile[i].GEO_ID[1]) =>
                  AfterLastMarker(censusFile[i].GEO_ID[1], frame[i].GEOID)

\* C11: an identifier that contains the marker 'US' is normalized to exactly the
\* text after the last occurrence of the marker, in the map builders (income_df)
\* and in visualizations.py (extra_vars_df) alike
C11_SubstringAfterLastMarker == NormalizedAt(income_df) /\ NormalizedAt(extra_vars_df)

\* the identifier "US1USB", which holds the marker twice, has become "B"
C11_Witness ==
    /\ script = "flat"
    /\ \E i \in Indices(income_df) :
          /\ censusFile[i].GEO_ID = << << "U", "S", "1", "U", "S", "B" >> >>
          /\ income_df[i].GEOID = << "B" >>

Unmarked(row) == row.GEO_ID = NaN \/ ~ HasMarker(row.GEO_ID[1])

SplitError == "'float' object has no attribute 'split'"

\* C12: a census row whose identifier is absent or holds no marker gets a key
\* that equals no tract identifier, and no run fails while normalizing it
C12_UnmarkedRowsUnjoinable ==
    /\ \A m \in Indices(printed) :
          "error" \in DOMAIN printed[m] => printed[m].error # SplitError
    /\ income_df # NoFrame =>
          \A i \in Indices(income_df) :
              Unmarked(censusFile[i]) =>
                  \A t \in Indices(tractsFile) : income_df[i].GEOID # tractsFile[t].GEOID

----------------------------------------------------------------------------
(* Properties of the enriched file as the analysis scripts read it *)

MetricsColumns == { "TotalCameras", "TotalPopulation", "MedianHouseholdIncome" }

MissingPopulation ==
    { "'TotalPopulation'",
      "GeoJSON is missing 'TotalPopulation' data. Please re-run the data creation script." }

\* C13: every record the map builder writes carries TotalCameras, TotalPopulation
\* and MedianHouseholdIncome, each filled, and an analysis script that reads the
\* written file never misses the population column
C13_MetricsColumnsPresent ==
    /\ Written =>
          \A i \in Indices(outputFile.features) :
              /\ MetricsColumns \subseteq DOMAIN outputFile.features[i]
              /\ \A c \in MetricsColumns : outputFile.features[i][c] # NaN
    /\ \A m \in Indices(printed) :
          "error" \in DOMAIN printed[m] => printed[m].error \notin MissingPopulation

----------------------------------------------------------------------------
(* Properties of the neighbourhood scenario *)

RecordsOf(geoid) ==
    { i \in Indices(outputFile.features) : outputFile.features[i].GEOID = geoid }

ScenarioRecord(geoid, income, cameras) ==
    /\ Cardinality(RecordsOf(geoid)) = 1
    /\ \A i \in RecordsOf(geoid) :
          /\ outputFile.features[i].MedianHouseholdIncome = << income >>
          /\ outputFile.features[i].TotalCameras = << cameras >>

\* C14: with tracts A, B, C, income 50000 for A and 100000 for B and none for C,
\* four points within A and two within B, the run ends by writing exactly three
\* records: A with (50000, 4), B with (100000, 2), C with (0, 0)
C14_Scenario ==
    /\ pc # "failed"
    /\ pc = "done" => Written
    /\ Written =>
          /\ Len(outputFile.features) = 3
          /\ ScenarioRecord(<< "A" >>, 50000, 4)
          /\ ScenarioRecord(<< "B" >>, 100000, 2)
          /\ ScenarioRecord(<< "C" >>, 0, 0)

\* a flat run whose four points of A share one coordinate has written its file
C14_Witness ==
    /\ Written
    /\ script = "flat"
    /\ Len(camera_gdf) = 2
    /\ ScenarioRecord(<< "A" >>, 50000, 4)

----------------------------------------------------------------------------
(* Properties of perform_statistical_analysis *)

Frames == { gdf, analysis_gdf, analysis_gdf_clean }

HasDensity(row) == "CamerasPer1000People" \in DOMAIN row

\* density * population = count * 1000, on the fraction's numerator and denominator
DensityDefined(row) ==
    IF row.TotalPopulation[1] > 0
    THEN row.CamerasPer1000People[1].num * row.TotalPopulation[1]
             = row.TotalCameras[1] * 1000 * row.CamerasPer1000People[1].den
    ELSE row.CamerasPer1000People = << [ num |-> 0, den |-> 1 ] >>

\* C15: the density of a record is count / population * 1000 when its population
\* is positive and 0 when its population is zero or negative
C15_DensityDefined ==
    \A frame \in Frames : \A i \in Indices(frame) :
        HasDensity(frame[i]) => DensityDefined(frame[i])

\* one file holds a tract with population 100 and 5 cameras, density 50, and a
\* tract without population, density 0
C15_Witness ==
    /\ \E i \in Indices(gdf) :
          /\ HasDensity(gdf[i])
          /\ gdf[i].TotalPopulation = << 100 >>
          /\ gdf[i].TotalCameras = << 5 >>
          /\ gdf[i].CamerasPer1000People = << [ num |-> 50, den |-> 1 ] >>
    /\ \E i \in Indices(gdf) :
          /\ HasDensity(gdf[i])
          /\ gdf[i].TotalPopulation = << 0 >>
          /\ gdf[i].CamerasPer1000People = << [ num |-> 0, den |-> 1 ] >>

\* the frame the population filter reads and the frame it leaves
FilterSource == IF script = "anal" THEN gdf ELSE analysis_gdf

FilterResult == IF script = "anal" THEN analysis_gdf ELSE analysis_gdf_clean

PastFilter ==
    \E m \in Indices(printed) :
        printed[m].msg \in { "Data Overview", "tracts are above the city's median income" }

Populated(row) == row.TotalPopulation # NaN /\ row.TotalPopulation[1] > 0

\* every pair of the correlation comes from a populated record
PairsFromPopulated(pairs, x) ==
    /\ Len(pairs) <= Cardinality({ i \in Indices(FilterSource) : Populated(FilterSource[i]) })
    /\ \A k \in Indices(pairs) :
          \E i \in Indices(FilterSource) :
              /\ Populated(FilterSource[i])
              /\ FilterSource[i][x] = << pairs[k].x >>
              /\ FilterSource[i].CamerasPer1000People = << pairs[k].y >>

\* C16: the records used by the correlations and by the income brackets are the
\* records with a positive population, all of them and no other: the filtered
\* frame is the populated rows in order, every correlated pair comes from one of
\* them, and the bracket means are those of the populated rows with an income
C16_PopulatedRecordsOnly ==
    PastFilter =>
        /\ FilterResult = SelectSeq(FilterSource, Populated)
        /\ PairsFromPopulated(income_data, "MedianHouseholdIncome")
        /\ PairsFromPopulated(poverty_data, "PovertyRate")
        /\ bracket_analysis # NoFrame =>
              bracket_analysis =
                  bracket_means(
                      SelectSeq(FilterSource, LAMBDA row :
                          Populated(row) /\ row.MedianHouseholdIncome[1] > 0),
                      IF Len(bracket_analysis) = 5 THEN labels5 ELSE labels3)

\* populations 10, 20, 0, 0 with 1, 2, 0, 0 cameras: two records are left and
\* both are correlated
C16_Witness ==
    /\ script = "anal"
    /\ Len(gdf) = 4
    /\ [ i \in 1..4 |-> gdf[i].TotalPopulation[1] ] = << 10, 20, 0, 0 >>
    /\ [ i \in 1..4 |-> gdf[i].TotalCameras[1] ] = << 1, 2, 0, 0 >>
    /\ Len(analysis_gdf) = 2
    /\ Len(income_data) = 2

\* the records the bracket step divides: populated, with a positive income
BracketRecords ==
    SelectSeq(FilterResult, LAMBDA row : Populated(row) /\ row.MedianHouseholdIncome[1] > 0)

BracketErrors ==
    { "Bin edges must be unique", "Bin labels must be one fewer than the number of bin edges" }

BracketStepFailed ==
    \E m \in Indices(printed) : "error" \in DOMAIN printed[m] /\ printed[m].error \in BracketErrors

BracketStepRan == pc \in { "m_plots", "done" } \/ BracketStepFailed

InsufficiencyReported ==
    \E m \in Indices(printed) :
        printed[m].msg = "Insufficient data for income quintiles. Skipping bracket analysis and bar chart."

\* C17: once the bracket step has run on fewer than five records with a positive
\* income, no bracket mean exists, the step has not failed and the
\* insufficiency has been reported, in anal.py as in visualizations.py
C17_SkippedUnderFive ==
    (BracketStepRan /\ Len(BracketRecords) < 5) =>
        /\ bracket_analysis = NoFrame
        /\ ~ BracketStepFailed
        /\ InsufficiencyReported

DistinctIncomes ==
    { BracketRecords[i].MedianHouseholdIncome[1] : i \in Indices(BracketRecords) }

\* C18: once the bracket step has run on five or more records that hold at most
\* two distinct incomes, it has produced three brackets or reported the
\* insufficiency; it has not produced five brackets and has not failed
C18_DegenerateQuintiles ==
    (BracketStepRan /\ Len(BracketRecords) >= 5 /\ Cardinality(DistinctIncomes) <= 2) =>
        /\ ~ BracketStepFailed
        /\ Len(bracket_analysis) # 5
        /\ Len(bracket_analysis) = 3 \/ InsufficiencyReported

----------------------------------------------------------------------------
(* Properties of the numeric coercion *)

Parses(cell) == cell # NaN /\ cell[1] # << >> /\ \A k \in Indices(cell[1]) : IsDigit(cell[1][k])

\* the number a cell holds, NaN for a cell that does not parse
Coerced(cell) == IF Parses(cell) THEN << ParseDigits(cell[1], 0) >> ELSE NaN

\* the income of every census row is its number, 0 where the cell does not
\* parse; its identifier and name are what the row holds
IncomeCoerced ==
    income_df # NoFrame =>
        /\ Len(income_df) = Len(censusFile)
        /\ \A i \in Indices(income_df) :
              /\ income_df[i].MedianHouseholdIncome =
                     (IF Parses(censusFile[i].DP03_0062E)
                      THEN Coerced(censusFile[i].DP03_0062E) ELSE << 0 >>)
              /\ censusFile[i].NAME # NaN => income_df[i].TractName = censusFile[i].NAME

\* the poverty rate of every record is the number of a census row of its tract,
\* NaN where that cell does not parse; its other attributes are those read
PovertyCoerced ==
    \A i \in Indices(analysis_gdf) :
        HasDensity(analysis_gdf[i]) =>
            /\ \/ \E k \in Indices(extra_vars_df) :
                     /\ extra_vars_df[k].GEOID = analysis_gdf[i].GEOID
                     /\ analysis_gdf[i].PovertyRate = Coerced(extra_vars_df[k].PovertyRate)
               \/ /\ analysis_gdf[i].PovertyRate = NaN
                  /\ \A k \in Indices(extra_vars_df) :
                        extra_vars_df[k].GEOID # analysis_gdf[i].GEOID
            /\ \E g \in Indices(gdf) :
                  \A c \in EnrichedColumns : analysis_gdf[i][c] = gdf[g][c]

\* the step that parses is never the step that fails
CoercionNeverFails ==
    /\ (script \in { "flat", "structured" } /\ CensusLoadable(censusFile) /\ printed # << >>)
          => printed[1].msg = "Census data prepared."
    /\ (script = "visualizations" /\ pc = "failed") =>
          \A i \in Indices(analysis_gdf) : ~ HasDensity(analysis_gdf[i]) \/ PastFilter

----------------------------------------------------------------------------
(* Properties of the key column check *)

JoinKeyMissing ==
    script = "join" /\ (key \notin Range(dp03File.header) \/ key \notin Range(dp05File.header))

FlatKeyMissing ==
    script = "flat" /\ ("Latitude" \notin cameraFile.columns \/ "Longitude" \notin cameraFile.columns)

KeyColumnMissing == JoinKeyMissing \/ FlatKeyMissing

\* the last message is the error and it names the key column
NamesKeyColumn ==
    /\ printed # << >>
    /\ "error" \in DOMAIN printed[Len(printed)]
    /\ \/ JoinKeyMissing /\ printed[Len(printed)].error = "'GEO_ID'"
       \/ FlatKeyMissing /\ printed[Len(printed)].error =
              "The required columns 'Latitude' and 'Longitude' were not found"

\* C20 as stated: when an input lacks its key column the run fails naming the
\* column, writes no file, and has built no frame from any input by then
C20_FailsBeforeAnyRow ==
    KeyColumnMissing =>
        /\ outputFile = NoFile
        /\ pc \in { "load", "census", "failed" }
        /\ pc = "failed" =>
              /\ NamesKeyColumn
              /\ income_df = NoFrame /\ camera_gdf = NoFrame /\ tracts_gdf = NoFrame
              /\ df_dp03 = NoFrame /\ df_dp05 = NoFrame /\ merged_df = NoFrame

\* C20: when an input lacks its key column the run fails naming the column and
\* writes no file; nothing is joined or aggregated from the table that lacks
\* it, while the inputs read before the failure are already loaded: both tables
\* of the join, the prepared census table of the map builder
C20_FailsWithoutOutput ==
    KeyColumnMissing =>
        /\ outputFile = NoFile
        /\ pc \in { "load", "join", "census", "cameras", "failed" }
        /\ camera_gdf = NoFrame /\ merged_df = NoFrame
        /\ pc = "failed" =>
              /\ NamesKeyColumn
              /\ JoinKeyMissing =>
                    df_dp03 = read_csv_skip1(dp03File) /\ df_dp05 = read_csv_skip1(dp05File)
              /\ FlatKeyMissing => Len(income_df) = Len(censusFile)

\* the map builder has failed on a camera CSV without the column Latitude,
\* after preparing the census row
C20_Witness ==
    /\ script = "flat"
    /\ cameraFile.columns = { "Longitude" }
    /\ pc = "failed"
    /\ NamesKeyColumn
    /\ Len(income_df) = 1
    /\ outputFile = NoFile

----------------------------------------------------------------------------
(* Properties of a failed stage *)

\* C21: a stage that has failed has written no file, and its caller receives
\* something other than what a successful call returns
C21_FailureSurfaces ==
    pc = "failed" =>
        /\ outputFile = NoFile
        /\ returns(pc) # returns("done")

----------------------------------------------------------------------------
(* Properties of the correlation *)

CorrelationMessages ==
    { "Correlation between Median Household Income and Camera Density", "Interpretation",
      "Income vs. Cameras", "Poverty Rate vs. Cameras" }

CorrelationFailed ==
    \E m \in Indices(printed) :
        "error" \in DOMAIN printed[m] /\ printed[m].error = "x and y must have length at least 2."

CorrelationStepRan ==
    \/ pc \in { "m_brackets", "m_plots", "done" }
    \/ CorrelationFailed
    \/ BracketStepFailed

\* fewer than two pairs, or one of the two columns constant
Degenerate(pairs) ==
    \/ Len(pairs) < 2
    \/ \A i, j \in Indices(pairs) : pairs[i].x = pairs[j].x
    \/ \A i, j \in Indices(pairs) : pairs[i].y = pairs[j].y

\* C22: once the correlation step has run on a degenerate sample (fewer than
\* two pairs, or a constant column) the run has not failed in that step and
\* has printed neither a coefficient nor an interpretation
C22_DegenerateCorrelation ==
    (CorrelationStepRan /\ Degenerate(income_data)) =>
        /\ ~ CorrelationFailed
        /\ \A m \in Indices(printed) : printed[m].msg \notin CorrelationMessages

\* the coefficient the run printed, and the interpretation it printed
PrintedCorrelation ==
    { printed[m].correlation :
        m \in { k \in Indices(printed) :
                  printed[k].msg = "Correlation between Median Household Income and Camera Density" } }

PrintedInterpretation ==
    { printed[m].text : m \in { k \in Indices(printed) : printed[k].msg = "Interpretation" } }

\* r * r compared with (a / b) * (a / b), for a coefficient that is a number
SquareAbove(r, a, b) == b * b * r.cov * r.cov > a * a * r.vx * r.vy

Defined(r) == r.n >= 2 /\ r.vx # 0 /\ r.vy # 0

\* C23: the interpretation printed for r is 'strong' exactly when |r| > 0.5,
\* 'weak' exactly when 0.1 < |r| <= 0.5 and 'no significant' otherwise, the
\* wording positive or negative by the sign of r
C23_InterpretationThresholds ==
    \A r \in PrintedCorrelation : \A text \in PrintedInterpretation :
        /\ text = "Strong positive correlation" <=>
               (Defined(r) /\ r.cov > 0 /\ SquareAbove(r, 1, 2))
        /\ text = "Strong negative correlation" <=>
               (Defined(r) /\ r.cov < 0 /\ SquareAbove(r, 1, 2))
        /\ text = "Weak positive correlation" <=>
               (Defined(r) /\ r.cov > 0 /\ SquareAbove(r, 1, 10) /\ ~ SquareAbove(r, 1, 2))
        /\ text = "Weak negative correlation" <=>
               (Defined(r) /\ r.cov < 0 /\ SquareAbove(r, 1, 10) /\ ~ SquareAbove(r, 1, 2))
        /\ text = "No significant linear correlation" <=>
               ~ (Defined(r) /\ SquareAbove(r, 1, 10))

\* incomes 1, 1, 2 with densities 0, 1, 1: r is exactly 0.5 and is called weak
C23_Witness ==
    /\ income_data = << [ x |-> 1, y |-> [ num |-> 0, den |-> 1 ] ],
                        [ x |-> 1, y |-> [ num |-> 1, den |-> 1 ] ],
                        [ x |-> 2, y |-> [ num |-> 1, den |-> 1 ] ] >>
    /\ PrintedInterpretation = { "Weak positive correlation" }

-----------------------------------------------------------------------------
(* Properties of the scraper's log file *)

\* the lines of LOG_FILE below its first
LoggedRows(file) == IF file = NoFile \/ Len(file) = 0 THEN << >> ELSE Tail(file)

\* every line of the file before the step is still there, in place, after it
KeepsLines(before, after) ==
    before = NoFile \/
        /\ after # NoFile
        /\ Len(after) >= Len(before)
        /\ \A k \in Indices(before) : after[k] = before[k]

\* C27: starting from an absent log file, after any sequence of log_to_csv
\* calls the file is one header row followed by one data row per call, in the
\* order of the calls (the k-th call is the one made at time k), and no call
\* removes or rewrites a line written before it
C27_HeaderThenOneRowPerCall ==
    /\ [](script \in { "connect-counter", "connect-counter-single" } =>
            IF clock = 0
            THEN logFile = NoFile
            ELSE /\ Len(logFile) = clock + 1
                 /\ logFile[1] = fieldnames
                 /\ \A k \in 1..clock :
                      /\ logFile[k + 1] # fieldnames
                      /\ logFile[k + 1][1] = strftime(k))
    /\ [][KeepsLines(logFile, logFile') /\
          (logFile' # logFile => Len(LoggedRows(logFile')) = Len(LoggedRows(logFile)) + 1)]_vars

\* three calls over two runs: the first run logged two URLs, one of them as
\* an error, the second run has logged one
C27_Witness ==
    /\ script = "connect-counter"
    /\ runs = 2
    /\ logFile # NoFile
    /\ Len(logFile) = 4
    /\ logFile[1] = fieldnames
    /\ logFile[2] = << "1", "https://connectchicopee.org/", "128", "128" >>
    /\ logFile[3] = << "2", "https://newyorkcityconnect.org/", "Error", "Error" >>
    /\ logFile[4][2] = "https://connectchicopee.org/"

\* the rows the runs so far should have logged, were every run complete
ExpectedUrl(k) == urls[((k - 1) % Len(urls)) + 1]

\* C26: in one run every URL of the list gets exactly one row, in list
\* order, with the scraped values or ('Error', 'Error'); a failure on one
\* URL, a failed browser launch included, does not keep the remaining URLs
\* from being processed
C26_OneRowPerUrl ==
    /\ (script \in { "connect-counter", "connect-counter-single" } /\ pc \in { "finished", "crashed" }) =>
          /\ Len(LoggedRows(logFile)) = runs * Len(urls)
          /\ \A k \in Indices(LoggedRows(logFile)) :
               /\ LoggedRows(logFile)[k][2] = ExpectedUrl(k)
               /\ \/ << LoggedRows(logFile)[k][3], LoggedRows(logFile)[k][4] >> = << "Error", "Error" >>
                  \/ { LoggedRows(logFile)[k][3], LoggedRows(logFile)[k][4] } \subseteq CounterTexts
    /\ (script = "app" /\ after_queue = << >> /\ threads # << >> /\
        \A t \in Indices(threads) : ~ threads[t].alive) =>
          /\ Len(results_data) = Len(threads[Len(threads)].urls)
          /\ \A k \in Indices(results_data) :
               results_data[k].URL = threads[Len(threads)].urls[k]

-----------------------------------------------------------------------------
(* Properties of ScraperApp *)

Alive == { t \in Indices(threads) : threads[t].alive }

\* a worker has been started and scraping_complete has not yet run for it
Scraping ==
    \/ Alive # { }
    \/ \E k \in Indices(after_queue) : after_queue[k].callback = "scraping_complete"

\* results_data after the step is what it was, or that with one row appended
Appended(before, after) ==
    \/ after = before
    \/ /\ Len(after) = Len(before) + 1
       /\ SubSeq(after, 1, Len(before)) = before

\* C25: from the start of a worker by start_scraping_thread until
\* scraping_complete runs on the main thread both buttons are disabled, so
\* there is never more than one worker thread, and while a worker is running
\* results_data is neither reset nor written to a file
C25_OneWorkerButtonsDisabled ==
    /\ [](script = "app" =>
            /\ Scraping => (start_button = "disabled" /\ save_button = "disabled")
            /\ Cardinality(Alive) <= 1)
    /\ [][(script = "app" /\ Alive # { }) =>
            (Appended(results_data, results_data') /\ outputFile' = outputFile)]_vars

\* a second run is scraping its second URL while the file saved after the
\* first run exists: the worker of the first run has returned, the buttons
\* are disabled again
C25_Witness ==
    /\ script = "app"
    /\ Len(threads) = 2
    /\ ~ threads[1].alive
    /\ threads[2].alive
    /\ threads[2].index = 2
    /\ Len(results_data) = 1
    /\ outputFile # NoFile
    /\ start_button = "disabled"
    /\ save_button = "disabled"

-----------------------------------------------------------------------------
(* Properties of the geocoding loop *)

LoopFinished == script = "geocode_earth" /\ df_locations # NoFrame /\ pc \in { "g_save", "finished" }

\* C28: when the main loop has finished every row has the status Success,
\* Failed or Skipped (Empty/Uncleanable), none is Pending; a row is Success
\* exactly when a latitude was returned for it; a Failed or Skipped row has
\* both Latitude and Longitude empty; a failed request stops no later row
C28_EveryRowSettled ==
    LoopFinished =>
        \A k \in Indices(df_locations) :
            /\ df_locations[k].Geocoding_Status \in
                   { "Success", "Failed", "Skipped (Empty/Uncleanable)" }
            /\ df_locations[k].Geocoding_Status = "Success" <=> df_locations[k].Latitude # None
            /\ df_locations[k].Geocoding_Status # "Success" =>
                   (df_locations[k].Latitude = None /\ df_locations[k].Longitude = None)

-----------------------------------------------------------------------------
(* Properties of the acquisition runs *)

Ended == pc \in { "finished", "crashed" }

\* the longest time limit of a wait, with the step of the clock
WaitLimitMax == goto_timeout + TickMs

====
